---- MODULE Spec2Model ----
(***************************************************************************)
(* Notlox (m-r-hunt/nail): the bytecode compiler (src/src/compiler.rs),    *)
(* the chunk (src/src/chunk.rs) and the stack VM (src/src/vm.rs).          *)
(*                                                                         *)
(* Conventions.                                                            *)
(*  - Rust vectors are 0-based; the sequences here are 1-based, so the     *)
(*    byte at code offset a is code[a + 1] (see ByteAt / SetByte).         *)
(*  - Option<T> is a sequence of length 0 (None) or 1 (Some).              *)
(*  - HashMap<String, T> is a function whose DOMAIN is the set of keys.    *)
(*  - f64 Numbers are modelled by integers.                                *)
(*  - `?` on a Result: every compile_* returns the compiler record with    *)
(*    err set, and the caller returns it unchanged.                        *)
(*  - u8 counters wrap modulo 256.                                         *)
(***************************************************************************)
EXTENDS Integers, Sequences, FiniteSets, TLC

(***************************************************************************)
(* chunk.rs: enum OpCode                                                   *)
(***************************************************************************)
OpReturn == 1
OpConstant == 2
OpNegate == 3
OpAdd == 4
OpSubtract == 5
OpMultiply == 6
OpDivide == 7
OpPrint == 8
OpAssignLocal == 9
OpLoadLocal == 10
OpPushNil == 11
OpPop == 12
OpFunctionEntry == 13
OpCall == 14
OpJumpIfFalse == 15
OpJump == 16
OpTestLess == 17
OpTestLessOrEqual == 18
OpTestGreater == 19
OpTestGreaterOrEqual == 20
OpIndex == 21
OpNewArray == 22
OpPushArray == 23
OpIndexAssign == 24
OpBuiltinCall == 25
OpMakeRange == 26
OpForLoop == 27
OpRemainder == 28
OpTestEqual == 29
OpTestNotEqual == 30
OpPopMulti == 31
OpPushTrue == 32
OpPushFalse == 33
OpNewMap == 34
OpPushMap == 35
OpNot == 36
OpDup == 38
OpJumpIfTrue == 39
OpAssignGlobal == 40
OpLoadGlobal == 41

\* vm.rs: const STACK_SIZE
STACK_SIZE == 256

\* the number of values of a u8
U8_RANGE == 256

\* the number of values of a 16-bit jump operand
I16_RANGE == 65536

(***************************************************************************)
(* Helpers for Rust's containers and integer casts                         *)
(***************************************************************************)
None == <<>>

Some(x) == <<x>>

IsSome(o) == Len(o) = 1

Unwrap(o) == o[1]

Last(s) == s[Len(s)]

Front(s) == SubSeq(s, 1, Len(s) - 1)

SetLast(s, x) == [s EXCEPT ![Len(s)] = x]

EmptyMap == <<>>

MapInsert(m, k, v) == (k :> v) @@ m

MapHas(m, k) == k \in DOMAIN m

ByteAt(code, addr) == code[addr + 1]

SetByte(code, addr, b) == [code EXCEPT ![addr + 1] = b]

\* `x as u8`
U8(x) == x % U8_RANGE

\* `x as i8` of a u8 value
I8(x) == IF x % U8_RANGE >= 128 THEN (x % U8_RANGE) - U8_RANGE ELSE x % U8_RANGE

(***************************************************************************)
(* value.rs: enum Value                                                    *)
(***************************************************************************)
Nil == [t |-> "Nil"]

Number(n) == [t |-> "Number", v |-> n]

\* the f64 values that are not finite; nf is what Display prints for them
Infinity == [t |-> "Number", v |-> 0, nf |-> "inf"]

NegInfinity == [t |-> "Number", v |-> 0, nf |-> "-inf"]

NaN == [t |-> "Number", v |-> 0, nf |-> "NaN"]

\* f64::is_finite, for a Value::Number
is_finite(value) == "nf" \notin DOMAIN value

Boolean(b) == [t |-> "Boolean", v |-> b]

String(s) == [t |-> "String", v |-> s]

ReferenceId(i) == [t |-> "ReferenceId", v |-> i]

Range(l, r) == [t |-> "Range", l |-> l, r |-> r]

MapForContext(keys, l, r) == [t |-> "MapForContext", keys |-> keys, l |-> l, r |-> r]

\* Value::is_falsey
is_falsey(v) ==
  CASE v.t = "Nil" -> TRUE
    [] v.t = "Boolean" -> ~v.v
    [] OTHER -> FALSE

\* Value::is_truey
is_truey(v) == ~is_falsey(v)

\* derive(PartialEq) for Value: the tags first, then the contents
\* (f64's PartialEq: NaN equals nothing)
ValueEq(a, b) == a.t = b.t /\ a = b /\ a # NaN

(***************************************************************************)
(* parser.rs: the AST.  Constructors for the nodes the parser builds; every *)
(* node carries its source line.                                           *)
(***************************************************************************)
LitNumber(n) == [k |-> "Literal", lit |-> "Number", n |-> n, line |-> 1]

LitString(s) == [k |-> "Literal", lit |-> "String", s |-> s, line |-> 1]

LitChar(code) == [k |-> "Literal", lit |-> "Char", n |-> code, line |-> 1]

LitFalse == [k |-> "Literal", lit |-> "False", line |-> 1]

LitTrue == [k |-> "Literal", lit |-> "True", line |-> 1]

LitNil == [k |-> "Literal", lit |-> "Nil", line |-> 1]

Unary(op, e) == [k |-> "Unary", operator |-> op, expression |-> e, line |-> 1]

Binary(l, op, r) == [k |-> "Binary", left |-> l, operator |-> op, right |-> r, line |-> 1]

Grouping(e) == [k |-> "Grouping", expression |-> e, line |-> 1]

Variable(name) == [k |-> "Variable", name |-> name, line |-> 1]

Block(stmts, e) == [k |-> "Block", statements |-> stmts, expression |-> e, line |-> 1]

Call(callee, args) == [k |-> "Call", callee |-> callee, args |-> args, line |-> 1]

BuiltinCall(callee, name, args) ==
  [k |-> "BuiltinCall", callee |-> callee, name |-> name, args |-> args, line |-> 1]

If(cond, then_block, else_expression) ==
  [k |-> "If", condition |-> cond, then_block |-> then_block,
   else_expression |-> else_expression, line |-> 1]

While(cond, block) == [k |-> "While", condition |-> cond, block |-> block, line |-> 1]

For(variable, variable2, range, block) ==
  [k |-> "For", variable |-> variable, variable2 |-> variable2, range |-> range,
   block |-> block, line |-> 1]

Loop(block) == [k |-> "Loop", block |-> block, line |-> 1]

Index(indexer, value) == [k |-> "Index", indexer |-> indexer, value |-> value, line |-> 1]

Assignment(lvalue, value) == [k |-> "Assignment", lvalue |-> lvalue, value |-> value, line |-> 1]

CompoundAssignment(lvalue, op, value) ==
  [k |-> "CompoundAssignment", lvalue |-> lvalue, operator |-> op, value |-> value, line |-> 1]

Array(initializers) == [k |-> "Array", initializers |-> initializers, line |-> 1]

MapName(name, value) == [key_kind |-> "Name", name |-> name, value |-> value, line |-> 1]

MapExpression(key, value) == [key_kind |-> "Expression", key |-> key, value |-> value, line |-> 1]

Map(initializers) == [k |-> "Map", initializers |-> initializers, line |-> 1]

RangeExpr(l, r) == [k |-> "Range", left |-> l, right |-> r, line |-> 1]

Return(value) == [k |-> "Return", value |-> value, line |-> 1]

Break == [k |-> "Break", line |-> 1]

Continue == [k |-> "Continue", line |-> 1]

LetStatement(name, initializer) ==
  [k |-> "LetStatement", name |-> name, initializer |-> initializer, line |-> 1]

PrintStatement(value) == [k |-> "PrintStatement", value |-> value, line |-> 1]

ExpressionStatement(e) == [k |-> "ExpressionStatement", expression |-> e, line |-> 1]

FnStatement(name, args, block) ==
  [k |-> "FnStatement", name |-> name, args |-> args, block |-> block, line |-> 1]

\* a node placed on another source line
AtLine(node, line) == [node EXCEPT !.line = line]

(***************************************************************************)
(* chunk.rs: struct Chunk                                                  *)
(***************************************************************************)
ChunkNew ==
  [code |-> <<>>, lines |-> <<>>, constants |-> <<>>, globals |-> EmptyMap,
   function_names |-> EmptyMap, function_locations |-> <<>>]

(***************************************************************************)
(* compiler.rs: struct Compiler.  Three ghost fields record where the      *)
(* compiler put things, for the properties to refer to:                    *)
(*   fn_arity : for each FunctionEntry address, the number of parameter    *)
(*              stores that follow it                                      *)
(*   sites    : for each `&&` / `||`, the address of its Dup, of the first *)
(*              instruction of the right operand and of the instruction    *)
(*              after it; for each `for`, the address where the iterable   *)
(*              expression starts and the address the loop exits to        *)
(*   emitted  : for each function body written, in the order written, its  *)
(*              name, the address of its FunctionEntry and the address     *)
(*              after its closing Return                                   *)
(***************************************************************************)
EnvironmentNew(next_local) == [locals |-> EmptyMap, next_local |-> next_local]

LoopContextNew(continue_address, break_pop) ==
  [continue_address |-> continue_address, pushed_this_loop |-> 0,
   breaks |-> <<>>, break_pop |-> break_pop]

\* overflow_checks is the build profile: with them (a debug build) an integer
\* addition that overflows panics, without them (a release build) it wraps
CompilerNew(overflow_checks) ==
  [chunk |-> ChunkNew,
   overflow_checks |-> overflow_checks,
   environments |-> <<EnvironmentNew(0)>>,
   loop_contexts |-> <<LoopContextNew(0, FALSE)>>,
   deferred |-> <<>>,
   max_local |-> 0,
   pushed_this_fn |-> 0,
   err |-> "",
   fn_arity |-> EmptyMap,
   sites |-> <<>>,
   emitted |-> <<>>]

Failed(c) == c.err # ""

\* F applied to v, with v evaluated once
Bind(v, F(_)) == CHOOSE r \in {F(x) : x \in {v}} : TRUE

\* `v?` followed by F: a failed compiler is returned as it is
Try(v, F(_)) == CHOOSE r \in {IF Failed(x) THEN x ELSE F(x) : x \in {v}} : TRUE

\* ghost: remember a site
AddSite(c, site) == [c EXCEPT !.sites = Append(@, site)]

CompilerError(c, msg) == [c EXCEPT !.err = msg]

\* the message of the panic of an overflowing `+` or `+=` under overflow checks
Overflow == "attempt to add with overflow"

\* does a + b leave lo..hi, the range of its type
Overflows(a, b, lo, hi) == a + b < lo \/ a + b > hi

CodeLen(c) == Len(c.chunk.code)

\* write_chunk that pushes the byte and no line
WriteChunkCodeOnly(c, byte, line) == [c EXCEPT !.chunk.code = Append(@, byte)]

\* Chunk::write_chunk
WriteChunk(c, byte, line) ==
  [c EXCEPT !.chunk.code = Append(@, byte), !.chunk.lines = Append(@, line)]

\* Chunk::add_constant: the index returned is `(constants.len() - 1) as u8`
AddConstant(c, value) == [c EXCEPT !.chunk.constants = Append(@, value)]

LastConstant(c) == U8(Len(c.chunk.constants) - 1)

\* Chunk::register_function
RegisterFunction(c, name) ==
  IF MapHas(c.chunk.function_names, name) THEN c
  ELSE [c EXCEPT !.chunk.function_names =
                    MapInsert(@, name, U8(Len(c.chunk.function_locations))),
                 !.chunk.function_locations = Append(@, 0)]

\* start_function recording the address of the locals-count byte
StartFunctionAtCount(c, name, line) ==
  [c EXCEPT !.chunk.code = Append(Append(@, OpFunctionEntry), 0),
            !.chunk.lines = Append(Append(@, line), line),
            !.chunk.function_locations[c.chunk.function_names[name] + 1] = CodeLen(c) + 1]

\* Chunk::start_function; the address returned is CodeLen - 1 afterwards
StartFunction(c, name, line) ==
  [c EXCEPT !.chunk.code = Append(Append(@, OpFunctionEntry), 0),
            !.chunk.lines = Append(Append(@, line), line),
            !.chunk.function_locations[c.chunk.function_names[name] + 1] = CodeLen(c)]

\* Chunk::lookup_function
LookupFunction(chunk, name) == chunk.function_locations[chunk.function_names[name] + 1]

\* Chunk::register_global
RegisterGlobal(c, name, value) == [c EXCEPT !.chunk.globals = MapInsert(@, name, value)]

\* Chunk::check_global
CheckGlobal(c, name) == MapHas(c.chunk.globals, name)

\* Compiler::push_environment
PushEnvironment(c) ==
  [c EXCEPT !.environments = Append(@, EnvironmentNew(Last(@).next_local))]

\* Compiler::pop_environment
PopEnvironment(c) == [c EXCEPT !.environments = Front(@)]

\* Compiler::push_loop_context
PushLoopContext(c, continue_address, break_pop) ==
  [c EXCEPT !.loop_contexts = Append(@, LoopContextNew(continue_address, break_pop))]

\* Compiler::insert_jump_address
InsertJumpAddress(c, jump_target_address, dest_address) ==
  LET addr == (dest_address - jump_target_address - 2) % I16_RANGE
  IN [c EXCEPT !.chunk.code =
        SetByte(SetByte(@, jump_target_address, addr % U8_RANGE),
                jump_target_address + 1, (addr \div U8_RANGE) % U8_RANGE)]

RECURSIVE PatchBreaks(_, _, _)
\* the loop of Compiler::pop_loop_context
PatchBreaks(c, breaks, break_address) ==
  IF breaks = <<>> THEN c
  ELSE PatchBreaks(InsertJumpAddress(c, Head(breaks), break_address),
                   Tail(breaks), break_address)

\* Compiler::pop_loop_context
PopLoopContext(c, break_address) ==
  Bind(c, LAMBDA c0 :
    PatchBreaks([c0 EXCEPT !.loop_contexts = Front(@)], Last(c0.loop_contexts).breaks,
                break_address))

\* Compiler::adjust_stack_usage
AdjustStackUsage(c, usage) ==
  Bind(c, LAMBDA c0 :
    IF /\ c0.overflow_checks
       /\ \/ Overflows(I8(c0.pushed_this_fn), usage, -128, 127)
          \/ Overflows(I8(Last(c0.loop_contexts).pushed_this_loop), usage, -128, 127)
    THEN CompilerError(c0, Overflow)
    ELSE [c0 EXCEPT !.pushed_this_fn = U8(I8(@) + usage),
                    !.loop_contexts =
                      SetLast(@, [Last(@) EXCEPT !.pushed_this_loop = U8(I8(@) + usage)])])

RECURSIVE FindLocalFrom(_, _, _)
\* the loop of Compiler::find_local, from environment i outwards
FindLocalFrom(c, name, i) ==
  IF i = 0 THEN None
  ELSE IF MapHas(c.environments[i].locals, name)
       THEN Some(c.environments[i].locals[name])
       ELSE FindLocalFrom(c, name, i - 1)

\* Compiler::find_local
FindLocal(c, name) == FindLocalFrom(c, name, Len(c.environments))

\* Compiler::bind_local; the slot returned is BoundSlot of the result
BindLocal(c, name) ==
  Bind(c, LAMBDA c0 :
    IF /\ c0.overflow_checks
       /\ \/ Overflows(Last(c0.environments).next_local, 1, 0, U8_RANGE - 1)
          \/ Overflows(c0.max_local, 1, 0, U8_RANGE - 1)
    THEN CompilerError(c0, Overflow)
    ELSE [c0 EXCEPT !.environments =
                      SetLast(@, [locals |-> MapInsert(Last(@).locals, name, Last(@).next_local),
                                  next_local |-> U8(Last(@).next_local + 1)]),
                    !.max_local = U8(@ + 1)])

\* the value bind_local returns: `current_env.next_local - 1`
BoundSlot(c) == U8(Last(c.environments).next_local - 1)

(***************************************************************************)
(* compiler.rs: the lowering rules.  Each compile_* takes the compiler and *)
(* returns it; Try(step, LAMBDA c1 : rest) is `step?; rest`.               *)
(***************************************************************************)
RECURSIVE CompileExpression(_, _)
RECURSIVE CompileStatement(_, _, _)

\* emit an opcode with a one-byte operand
WriteOp1(c, op, operand, line) == WriteChunk(WriteChunk(c, op, line), operand, line)

\* emit a jump opcode with a zeroed two-byte operand
WriteJump(c, op, line) == WriteChunk(WriteChunk(WriteChunk(c, op, line), 0, line), 0, line)

\* Compiler::evaluate: Some(value) for a literal, None for anything else
\* evaluate that takes every expression that is not a literal for nil
EvaluateAnything(expression) ==
  IF expression.k # "Literal" \/ expression.lit = "Nil" THEN Some(Nil)
  ELSE IF expression.lit \in {"Number", "Char"} THEN Some(Number(expression.n))
  ELSE IF expression.lit = "String" THEN Some(String(expression.s))
  ELSE Some(Boolean(expression.lit = "True"))

Evaluate(expression) ==
  IF expression.k # "Literal" THEN None
  ELSE CASE expression.lit = "Number" -> Some(Number(expression.n))
         [] expression.lit = "String" -> Some(String(expression.s))
         [] expression.lit = "Char" -> Some(Number(expression.n))
         [] expression.lit = "False" -> Some(Boolean(FALSE))
         [] expression.lit = "True" -> Some(Boolean(TRUE))
         [] expression.lit = "Nil" -> Some(Nil)

\* Compiler::compile_let_statement
CompileLetStatement(c, let_statement, top_level) ==
  IF top_level
  THEN IF IsSome(let_statement.initializer)
       THEN LET value == Evaluate(Unwrap(let_statement.initializer))
            IN IF IsSome(value)
               THEN RegisterGlobal(c, let_statement.name, Unwrap(value))
               ELSE CompilerError(c, "Expected literal in global let initializer.")
       ELSE RegisterGlobal(c, let_statement.name, Nil)
  ELSE IF IsSome(let_statement.initializer)
       THEN Try(CompileExpression(c, Unwrap(let_statement.initializer)), LAMBDA c1 :
              Bind(BindLocal(c1, let_statement.name), LAMBDA c2 :
                AdjustStackUsage(
                  WriteOp1(c2, OpAssignLocal, BoundSlot(c2), let_statement.line), -1)))
       ELSE BindLocal(c, let_statement.name)

\* Compiler::compile_print_statement
CompilePrintStatement(c, statement) ==
  Try(CompileExpression(c, statement.value), LAMBDA c1 :
    AdjustStackUsage(WriteChunk(c1, OpPrint, statement.line), -1))

\* Compiler::compile_expression_statement
CompileExpressionStatement(c, statement) ==
  Try(CompileExpression(c, statement.expression), LAMBDA c1 :
    AdjustStackUsage(WriteChunk(c1, OpPop, statement.line), -1))

RECURSIVE CompileStatementsIn(_, _, _, _, _)
\* `for s in statements { self.compile_statement(s, top_level)?; }` over the
\* statements lo..hi, first the lower half and then the upper half
CompileStatementsIn(c, statements, lo, hi, top_level) ==
  IF lo > hi THEN c
  ELSE IF lo = hi THEN CompileStatement(c, statements[lo], top_level)
  ELSE Try(CompileStatementsIn(c, statements, lo, (lo + hi) \div 2, top_level), LAMBDA c1 :
         CompileStatementsIn(c1, statements, (lo + hi) \div 2 + 1, hi, top_level))

CompileStatements(c, statements, top_level) ==
  CompileStatementsIn(c, statements, 1, Len(statements), top_level)

\* Compiler::compile_block
CompileBlock(c, block) ==
  Try(CompileStatements(PushEnvironment(c), block.statements, FALSE), LAMBDA c1 :
    IF IsSome(block.expression)
    THEN Try(CompileExpression(c1, Unwrap(block.expression)), LAMBDA c2 :
           PopEnvironment(c2))
    ELSE PopEnvironment(AdjustStackUsage(WriteChunk(c1, OpPushNil, block.line), 1)))

RECURSIVE BindArgs(_, _, _)
\* `for arg in fn_statement.args.into_iter().rev()`: bind and store the parameters
BindArgs(c, args, line) ==
  IF args = <<>> THEN c
  ELSE Bind(BindLocal(c, Last(args)), LAMBDA c1 :
         BindArgs(WriteOp1(c1, OpAssignLocal, BoundSlot(c1), line), Front(args), line))

\* Compiler::compile_fn_statement
CompileFnStatement(c, fn_statement, top_level) ==
  Bind(RegisterFunction(c, fn_statement.name), LAMBDA c0 :
    IF ~top_level
    THEN [c0 EXCEPT !.deferred = Append(@, fn_statement)]
    ELSE Bind(StartFunction([c0 EXCEPT !.max_local = 0, !.pushed_this_fn = 0],
                            fn_statement.name, fn_statement.line), LAMBDA c1 :
           LET locals_addr == CodeLen(c1) - 1
           IN Bind(BindArgs([c1 EXCEPT !.fn_arity =
                               MapInsert(@, locals_addr - 1, Len(fn_statement.args))],
                            fn_statement.args, fn_statement.line), LAMBDA c2 :
                Try(CompileBlock(c2, fn_statement.block), LAMBDA c3 :
                  Bind(WriteChunk(c3, OpReturn, fn_statement.line), LAMBDA c4 :
                    [c4 EXCEPT !.chunk.code = SetByte(@, locals_addr, c4.max_local),
                               !.emitted = Append(@, [name |-> fn_statement.name,
                                                      start |-> locals_addr - 1,
                                                      end |-> CodeLen(c4)])])))))

\* Compiler::compile_statement
CompileStatement(c, statement, top_level) ==
  CASE statement.k = "LetStatement" -> CompileLetStatement(c, statement, top_level)
    [] statement.k = "PrintStatement" -> CompilePrintStatement(c, statement)
    [] statement.k = "ExpressionStatement" -> CompileExpressionStatement(c, statement)
    [] statement.k = "FnStatement" -> CompileFnStatement(c, statement, top_level)

RECURSIVE CompileDeferred(_)
\* `while let Some(fn_statement) = self.deferred.pop()`
\* compile_program that takes one function from the deferred list
CompileDeferredOnce(c) ==
  IF c.deferred = <<>> THEN c
  ELSE CompileFnStatement([c EXCEPT !.deferred = Front(@)], Last(c.deferred), TRUE)

CompileDeferred(c) ==
  IF c.deferred = <<>> THEN c
  ELSE Try(CompileFnStatement([c EXCEPT !.deferred = Front(@)], Last(c.deferred), TRUE),
           LAMBDA c1 : CompileDeferred(c1))

\* Compiler::compile_program
CompileProgram(c, program) ==
  Bind(program, LAMBDA p :
    Try(CompileStatements(c, p, TRUE), LAMBDA c1 : CompileDeferred(c1)))

\* compiler::compile (the parser's output is the input here)
Compile(program, overflow_checks) == CompileProgram(CompilerNew(overflow_checks), program)

\* the Constant instruction for a value just added to the constants
WriteConstant(c, value, line) ==
  Bind(AddConstant(c, value), LAMBDA c1 : WriteOp1(c1, OpConstant, LastConstant(c1), line))

\* Compiler::compile_literal
CompileLiteral(c, literal) ==
  CASE literal.lit = "Number" ->
         AdjustStackUsage(WriteConstant(c, Number(literal.n), literal.line), 1)
    [] literal.lit = "String" ->
         AdjustStackUsage(WriteConstant(c, String(literal.s), literal.line), 1)
    [] literal.lit = "Char" ->
         AdjustStackUsage(WriteConstant(c, Number(literal.n), literal.line), 1)
    [] literal.lit = "False" -> AdjustStackUsage(WriteChunk(c, OpPushFalse, literal.line), 1)
    [] literal.lit = "True" -> AdjustStackUsage(WriteChunk(c, OpPushTrue, literal.line), 1)
    [] literal.lit = "Nil" -> AdjustStackUsage(WriteChunk(c, OpPushNil, literal.line), 1)

\* Compiler::compile_unary
CompileUnary(c, unary) ==
  Try(CompileExpression(c, unary.expression), LAMBDA c1 :
    CASE unary.operator = "Minus" -> WriteChunk(c1, OpNegate, unary.line)
      [] unary.operator = "Bang" -> WriteChunk(c1, OpNot, unary.line))

\* compile_and with its jump patched to the instruction after the operand, so
\* that the jump falls through into the right operand
CompileAndFallThrough(c, binary) ==
  Try(CompileExpression(c, binary.left), LAMBDA c1 :
    Bind(WriteChunk(AdjustStackUsage(WriteChunk(c1, OpDup, binary.line), 1),
                    OpJumpIfFalse, binary.line), LAMBDA c3 :
      LET jump_address == CodeLen(c3)
          c4 == AdjustStackUsage(WriteChunk(WriteChunk(c3, 0, binary.line), 0, binary.line), -1)
      IN Bind(AdjustStackUsage(WriteChunk(c4, OpPop, binary.line), -1), LAMBDA c5 :
           Try(CompileExpression(c5, binary.right), LAMBDA c6 :
             AddSite(InsertJumpAddress(c6, jump_address, jump_address + 2),
                     [k |-> "and", dup |-> jump_address - 2, rhs |-> jump_address + 3,
                      end |-> CodeLen(c6)])))))

\* Compiler::compile_and
CompileAnd(c, binary) ==
  Try(CompileExpression(c, binary.left), LAMBDA c1 :
    Bind(WriteChunk(AdjustStackUsage(WriteChunk(c1, OpDup, binary.line), 1),
                    OpJumpIfFalse, binary.line), LAMBDA c3 :
      LET jump_address == CodeLen(c3)
          c4 == AdjustStackUsage(WriteChunk(WriteChunk(c3, 0, binary.line), 0, binary.line), -1)
      IN Bind(AdjustStackUsage(WriteChunk(c4, OpPop, binary.line), -1), LAMBDA c5 :
           Try(CompileExpression(c5, binary.right), LAMBDA c6 :
             LET jump_target == CodeLen(c6)
             IN AddSite(InsertJumpAddress(c6, jump_address, jump_target),
                        [k |-> "and", dup |-> jump_address - 2, rhs |-> jump_address + 3,
                         end |-> jump_target])))))

\* Compiler::compile_or
CompileOr(c, binary) ==
  Try(CompileExpression(c, binary.left), LAMBDA c1 :
    Bind(WriteChunk(AdjustStackUsage(WriteChunk(c1, OpDup, binary.line), 1),
                    OpJumpIfTrue, binary.line), LAMBDA c3 :
      LET jump_address == CodeLen(c3)
          c4 == AdjustStackUsage(WriteChunk(WriteChunk(c3, 0, binary.line), 0, binary.line), -1)
      IN Bind(AdjustStackUsage(WriteChunk(c4, OpPop, binary.line), -1), LAMBDA c5 :
           Try(CompileExpression(c5, binary.right), LAMBDA c6 :
             LET jump_target == CodeLen(c6)
             IN AddSite(InsertJumpAddress(c6, jump_address, jump_target),
                        [k |-> "or", dup |-> jump_address - 2, rhs |-> jump_address + 3,
                         end |-> jump_target])))))

\* the opcode compile_binary emits for an operator token
BinaryOpCode(operator) ==
  CASE operator = "Plus" -> OpAdd
    [] operator = "Minus" -> OpSubtract
    [] operator = "Star" -> OpMultiply
    [] operator = "Slash" -> OpDivide
    [] operator = "Percent" -> OpRemainder
    [] operator = "Less" -> OpTestLess
    [] operator = "LessEqual" -> OpTestLessOrEqual
    [] operator = "Greater" -> OpTestGreater
    [] operator = "GreaterEqual" -> OpTestGreaterOrEqual
    [] operator = "EqualEqual" -> OpTestEqual
    [] operator = "BangEqual" -> OpTestNotEqual

\* Compiler::compile_binary
\* compile_binary that compiles the left operand first
CompileBinaryLeftFirst(c, binary) ==
  IF binary.operator = "AmpersandAmpersand" THEN CompileAnd(c, binary)
  ELSE IF binary.operator = "PipePipe" THEN CompileOr(c, binary)
  ELSE
  Try(CompileExpression(c, binary.left), LAMBDA c1 :
    Try(CompileExpression(c1, binary.right), LAMBDA c2 :
      AdjustStackUsage(WriteChunk(c2, BinaryOpCode(binary.operator), binary.line), -1)))

CompileBinary(c, binary) ==
  IF binary.operator = "AmpersandAmpersand" THEN CompileAnd(c, binary)
  ELSE IF binary.operator = "PipePipe" THEN CompileOr(c, binary)
  ELSE Try(CompileExpression(c, binary.right), LAMBDA c1 :
         Try(CompileExpression(c1, binary.left), LAMBDA c2 :
           AdjustStackUsage(WriteChunk(c2, BinaryOpCode(binary.operator), binary.line), -1)))

\* Compiler::compile_grouping
CompileGrouping(c, grouping) == CompileExpression(c, grouping.expression)

\* Compiler::compile_variable
CompileVariable(c, variable) ==
  Bind(c, LAMBDA c0 :
    LET number == FindLocal(c0, variable.name)
    IN IF IsSome(number)
       THEN AdjustStackUsage(WriteOp1(c0, OpLoadLocal, Unwrap(number), variable.line), 1)
       ELSE IF CheckGlobal(c0, variable.name)
            THEN WriteChunk(WriteConstant(c0, String(variable.name), variable.line),
                            OpLoadGlobal, variable.line)
            ELSE CompilerError(c0, "Undefined variable"))

RECURSIVE CompileExpressions(_, _)
\* `for e in args { self.compile_expression(e)?; }`
CompileExpressions(c, es) ==
  IF es = <<>> THEN c
  ELSE Try(CompileExpression(c, Head(es)), LAMBDA c1 : CompileExpressions(c1, Tail(es)))

\* Compiler::compile_call
CompileCall(c, call) ==
  Try(CompileExpressions(c, call.args), LAMBDA c1 :
    Bind(WriteChunk(c1, OpCall, call.line), LAMBDA c2 :
      LET nargs == U8(Len(call.args))
      IN IF call.callee.k = "Variable"
         THEN IF MapHas(c2.chunk.function_names, call.callee.name)
              THEN AdjustStackUsage(
                     AdjustStackUsage(
                       WriteChunk(c2, c2.chunk.function_names[call.callee.name], call.line),
                       -I8(nargs)),
                     1)
              ELSE CompilerError(c2, "Undefined function")
         ELSE CompilerError(c2, "Expected variable in call")))

\* Compiler::compile_if
CompileIf(c, if_expression) ==
  LET line == if_expression.line
  IN Try(CompileExpression(c, if_expression.condition), LAMBDA c1 :
       Bind(AdjustStackUsage(WriteJump(c1, OpJumpIfFalse, line), -1), LAMBDA c2 :
         LET jump_target_address == CodeLen(c2) - 2
         IN Try(CompileBlock(c2, if_expression.then_block), LAMBDA c3 :
              Bind(WriteJump(c3, OpJump, line), LAMBDA c4 :
                LET else_target_address == CodeLen(c4) - 2
                IN Bind(AdjustStackUsage(
                          InsertJumpAddress(c4, jump_target_address, CodeLen(c4)), -1),
                        LAMBDA c5 :
                     Try(IF IsSome(if_expression.else_expression)
                         THEN CompileExpression(c5, Unwrap(if_expression.else_expression))
                         ELSE AdjustStackUsage(WriteChunk(c5, OpPushNil, line), 1),
                         LAMBDA c6 :
                       InsertJumpAddress(c6, else_target_address, CodeLen(c6))))))))

\* Compiler::compile_while
CompileWhile(c, while_expression) ==
  LET line == while_expression.line
  IN Bind(c, LAMBDA c0 :
       LET while_start_address == CodeLen(c0)
       IN Try(CompileExpression(c0, while_expression.condition), LAMBDA c1 :
            Bind(PushLoopContext(AdjustStackUsage(WriteJump(c1, OpJumpIfFalse, line), -1),
                                 while_start_address, FALSE), LAMBDA c2 :
              LET jump_target_address == CodeLen(c2) - 2
              IN Try(CompileBlock(c2, while_expression.block), LAMBDA c3 :
                   Bind(WriteJump(AdjustStackUsage(WriteChunk(c3, OpPop, line), -1),
                                  OpJump, line), LAMBDA c4 :
                     LET current_address == CodeLen(c4)
                         c5 == InsertJumpAddress(
                                 InsertJumpAddress(c4, current_address - 2,
                                                   while_start_address),
                                 jump_target_address, current_address)
                     IN AdjustStackUsage(
                          WriteChunk(PopLoopContext(c5, current_address), OpPushNil, line),
                          1))))))

\* a prologue that gives the second loop variable the index instead of a[i]
BindSecondVariableToIndex(c, variable2, for_local_n, local_n, line) ==
  Bind(BindLocal(c, variable2), LAMBDA b :
    WriteOp1(WriteOp1(b, OpLoadLocal, local_n, line), OpAssignLocal, BoundSlot(b), line))

\* the prologue compile_for emits for the second loop variable
BindSecondVariable(c, variable2, for_local_n, local_n, line) ==
  Bind(BindLocal(c, variable2), LAMBDA b :
    WriteOp1(
      WriteChunk(
        WriteOp1(WriteOp1(b, OpLoadLocal, for_local_n, line), OpLoadLocal, local_n, line),
        OpIndex, line),
      OpAssignLocal, BoundSlot(b), line))

\* Compiler::compile_for
CompileFor(c, for_expression) ==
  LET line == for_expression.line
  IN Bind(c, LAMBDA c0 :
     Try(CompileExpression(c0, for_expression.range), LAMBDA c1 :
       Bind(BindLocal(c1, "_for_loop_range"), LAMBDA c2 :
         LET for_local_n == BoundSlot(c2)
         IN Bind(WriteOp1(WriteOp1(c2, OpAssignLocal, for_local_n, line),
                          OpLoadLocal, for_local_n, line), LAMBDA c3 :
              LET for_start_address == CodeLen(c3)
              IN Bind(BindLocal(WriteChunk(c3, OpForLoop, line), for_expression.variable),
                      LAMBDA c4 :
                   LET local_n == BoundSlot(c4)
                   IN Bind(PushLoopContext(
                             WriteChunk(WriteChunk(WriteChunk(c4, local_n, line), 0, line),
                                        0, line),
                             for_start_address, TRUE), LAMBDA c6 :
                        LET for_jump_target_address == CodeLen(c6) - 2
                        IN Try(CompileBlock(
                                 IF IsSome(for_expression.variable2)
                                 THEN BindSecondVariable(c6, Unwrap(for_expression.variable2),
                                                         for_local_n, local_n, line)
                                 ELSE c6,
                                 for_expression.block), LAMBDA c8 :
                             Bind(WriteJump(AdjustStackUsage(WriteChunk(c8, OpPop, line), -1),
                                            OpJump, line), LAMBDA c9 :
                               LET current_address == CodeLen(c9)
                                   c10 == InsertJumpAddress(
                                            InsertJumpAddress(c9, current_address - 2,
                                                              for_start_address),
                                            for_jump_target_address, current_address)
                               IN AddSite(
                                    PopLoopContext(WriteChunk(c10, OpPushNil, line),
                                                   current_address),
                                    [k |-> "for", start |-> CodeLen(c0),
                                     exit |-> current_address])))))))))

\* Compiler::compile_loop
CompileLoop(c, loop_expression) ==
  LET line == loop_expression.line
  IN Bind(c, LAMBDA c0 :
       LET loop_start_address == CodeLen(c0)
       IN Try(CompileBlock(PushLoopContext(c0, loop_start_address, FALSE),
                           loop_expression.block), LAMBDA c1 :
            Bind(WriteJump(AdjustStackUsage(WriteChunk(c1, OpPop, line), -1), OpJump, line),
                 LAMBDA c2 :
              LET current_address == CodeLen(c2)
                  c3 == PopLoopContext(
                          InsertJumpAddress(c2, current_address - 2, loop_start_address),
                          current_address)
              IN AdjustStackUsage(WriteChunk(c3, OpPushNil, line), 1))))

\* compile_assignment, the lvalue a variable
AssignVariable(c, assignment) ==
  LET line == assignment.line
      v == assignment.lvalue
  IN Try(CompileExpression(c, assignment.value), LAMBDA c1 :
       LET local_number == FindLocal(c1, v.name)
       IN IF IsSome(local_number)
          THEN AdjustStackUsage(WriteOp1(c1, OpAssignLocal, Unwrap(local_number), line), -1)
          ELSE IF CheckGlobal(c1, v.name)
               THEN WriteChunk(WriteConstant(c1, String(v.name), line), OpAssignGlobal, line)
               ELSE CompilerError(c1, "Assignment to undefined local"))

\* compile_assignment, the lvalue an index expression
AssignIndex(c, assignment) ==
  LET i == assignment.lvalue
  IN Try(CompileExpression(c, i.indexer), LAMBDA c1 :
       Try(CompileExpression(c1, i.value), LAMBDA c2 :
         Try(CompileExpression(c2, assignment.value), LAMBDA c3 :
           AdjustStackUsage(WriteChunk(c3, OpIndexAssign, assignment.line), -3))))

\* Compiler::compile_assignment
CompileAssignment(c, assignment) ==
  Try(IF assignment.lvalue.k = "Variable" THEN AssignVariable(c, assignment)
      ELSE AssignIndex(c, assignment), LAMBDA stored :
    AdjustStackUsage(WriteChunk(stored, OpPushNil, assignment.line), 1))

\* the operator token compile_compound_assignment rewrites to
CompoundOperator(operator) ==
  CASE operator = "MinusEqual" -> "Minus"
    [] operator = "PlusEqual" -> "Plus"
    [] operator = "StarEqual" -> "Star"
    [] operator = "SlashEqual" -> "Slash"

\* Compiler::compile_compound_assignment
CompileCompoundAssignment(c, compound_assignment) ==
  CompileAssignment(c,
    [k |-> "Assignment",
     lvalue |-> compound_assignment.lvalue,
     value |-> [k |-> "Binary",
                left |-> compound_assignment.lvalue,
                operator |-> CompoundOperator(compound_assignment.operator),
                right |-> compound_assignment.value,
                line |-> compound_assignment.line],
     line |-> compound_assignment.line])

\* Compiler::compile_index
CompileIndex(c, index) ==
  Try(CompileExpression(c, index.indexer), LAMBDA c1 :
    Try(CompileExpression(c1, index.value), LAMBDA c2 :
      AdjustStackUsage(WriteChunk(c2, OpIndex, index.line), -1)))

RECURSIVE CompileArrayInitializers(_, _, _)
\* the loop of Compiler::compile_array
CompileArrayInitializers(c, initializers, line) ==
  IF initializers = <<>> THEN c
  ELSE Try(CompileExpression(c, Head(initializers)), LAMBDA c1 :
         CompileArrayInitializers(AdjustStackUsage(WriteChunk(c1, OpPushArray, line), -1),
                                  Tail(initializers), line))

\* Compiler::compile_array
CompileArray(c, array) ==
  CompileArrayInitializers(AdjustStackUsage(WriteChunk(c, OpNewArray, array.line), 1),
                           array.initializers, array.line)

RECURSIVE CompileMapInitializers(_, _, _)
\* the loop of Compiler::compile_map
CompileMapInitializers(c, initializers, line) ==
  IF initializers = <<>> THEN c
  ELSE LET i == Head(initializers)
       IN Try(IF i.key_kind = "Name"
              THEN AdjustStackUsage(WriteConstant(c, String(i.name), line), 1)
              ELSE CompileExpression(c, i.key), LAMBDA c1 :
            Try(CompileExpression(c1, i.value), LAMBDA c2 :
              CompileMapInitializers(AdjustStackUsage(WriteChunk(c2, OpPushMap, line), -2),
                                     Tail(initializers), line)))

\* Compiler::compile_map
CompileMap(c, map) ==
  CompileMapInitializers(AdjustStackUsage(WriteChunk(c, OpNewMap, map.line), 1),
                         map.initializers, map.line)

\* Compiler::compile_builtin_call
CompileBuiltinCall(c, builtin_call) ==
  LET line == builtin_call.line
      nargs == U8(Len(builtin_call.args))
  IN Try(CompileExpressions(c, builtin_call.args), LAMBDA c1 :
       Try(CompileExpression(c1, builtin_call.callee), LAMBDA c2 :
         Bind(AdjustStackUsage(WriteConstant(c2, String(builtin_call.name), line), 1),
              LAMBDA c4 :
           AdjustStackUsage(
             AdjustStackUsage(WriteChunk(c4, OpBuiltinCall, line), -2 - I8(nargs)), 1))))

\* Compiler::compile_range
CompileRange(c, range) ==
  Try(CompileExpression(c, range.left), LAMBDA c1 :
    Try(CompileExpression(c1, range.right), LAMBDA c2 :
      AdjustStackUsage(WriteChunk(c2, OpMakeRange, range.line), -1)))

\* compile_return without the PopMulti that discards what the function pushed
CompileReturnKeepingValues(c, return_expression) ==
  LET line == return_expression.line
  IN Try(IF IsSome(return_expression.value)
         THEN CompileExpression(c, Unwrap(return_expression.value))
         ELSE AdjustStackUsage(WriteChunk(c, OpPushNil, line), 1), LAMBDA c2 :
       AdjustStackUsage(WriteChunk(c2, OpReturn, line), 1))

\* Compiler::compile_return
CompileReturn(c, return_expression) ==
  LET line == return_expression.line
  IN Bind(c, LAMBDA c0 :
       Bind(IF c0.pushed_this_fn > 0
            THEN WriteOp1(c0, OpPopMulti, c0.pushed_this_fn, line)
            ELSE c0, LAMBDA c1 :
         Try(IF IsSome(return_expression.value)
             THEN CompileExpression(c1, Unwrap(return_expression.value))
             ELSE AdjustStackUsage(WriteChunk(c1, OpPushNil, line), 1), LAMBDA c2 :
           AdjustStackUsage(WriteChunk(c2, OpReturn, line), 1))))

\* Compiler::compile_continue
CompileContinue(c, line) ==
  Bind(c, LAMBDA c0 :
    IF c0.loop_contexts = <<>> THEN CompilerError(c0, "Continue outside of loop.")
    ELSE LET loop_context == Last(c0.loop_contexts)
         IN Bind(WriteJump(IF loop_context.pushed_this_loop > 0
                           THEN WriteOp1(c0, OpPopMulti, loop_context.pushed_this_loop, line)
                           ELSE c0, OpJump, line), LAMBDA c2 :
              LET jump_target_address == CodeLen(c2) - 2
              IN AdjustStackUsage(
                   InsertJumpAddress(c2, jump_target_address, loop_context.continue_address),
                   1)))

\* Compiler::compile_break
CompileBreak(c, line) ==
  Bind(c, LAMBDA c0 :
    IF c0.loop_contexts = <<>> THEN CompilerError(c0, "Break outside of loop.")
    ELSE LET loop_context == Last(c0.loop_contexts)
             c1 == IF loop_context.pushed_this_loop > 0
                   THEN WriteOp1(c0, OpPopMulti, loop_context.pushed_this_loop, line)
                   ELSE c0
         IN Bind(WriteJump(IF loop_context.break_pop THEN WriteChunk(c1, OpPop, line) ELSE c1,
                           OpJump, line), LAMBDA c3 :
              AdjustStackUsage(
                [c3 EXCEPT !.loop_contexts =
                              SetLast(@, [Last(@) EXCEPT !.breaks = Append(@, CodeLen(c3) - 2)])],
                1)))

\* Compiler::compile_expression
CompileExpression(c, expression) ==
  CASE expression.k = "Literal" -> CompileLiteral(c, expression)
    [] expression.k = "Unary" -> CompileUnary(c, expression)
    [] expression.k = "Binary" -> CompileBinary(c, expression)
    [] expression.k = "Grouping" -> CompileGrouping(c, expression)
    [] expression.k = "Variable" -> CompileVariable(c, expression)
    [] expression.k = "Block" -> CompileBlock(c, expression)
    [] expression.k = "Call" -> CompileCall(c, expression)
    [] expression.k = "If" -> CompileIf(c, expression)
    [] expression.k = "While" -> CompileWhile(c, expression)
    [] expression.k = "For" -> CompileFor(c, expression)
    [] expression.k = "Loop" -> CompileLoop(c, expression)
    [] expression.k = "Assignment" -> CompileAssignment(c, expression)
    [] expression.k = "CompoundAssignment" -> CompileCompoundAssignment(c, expression)
    [] expression.k = "Index" -> CompileIndex(c, expression)
    [] expression.k = "Array" -> CompileArray(c, expression)
    [] expression.k = "Map" -> CompileMap(c, expression)
    [] expression.k = "BuiltinCall" -> CompileBuiltinCall(c, expression)
    [] expression.k = "Range" -> CompileRange(c, expression)
    [] expression.k = "Return" -> CompileReturn(c, expression)
    [] expression.k = "Continue" -> CompileContinue(c, expression.line)
    [] expression.k = "Break" -> CompileBreak(c, expression.line)

(***************************************************************************)
(* vm.rs: struct VM, as a record m with the fields of the struct plus      *)
(*   status : "new" | "running" | "ok" | "runtime_error" | "compile_error" *)
(*            | "panic" | "unmodelled"                                     *)
(*   error  : the RuntimeError / CompileError returned, [msg, line]        *)
(*   result : the Value interpret returned with Ok                         *)
(*   output : the lines printed by OpCode::Print                           *)
(* The value stack and the call-frame stack are sequences whose length is  *)
(* top / return_stack_top (cells at and above top are never read before    *)
(* they are written); locals is the whole array, whose old contents stay   *)
(* readable.  "panic" is a Rust panic (an index out of bounds, an unwrap   *)
(* of None); "unmodelled" ends a run that leaves what is modelled here (a  *)
(* host facility such as the file system or the regex library, a Number    *)
(* that is not an integer).                                                *)
(***************************************************************************)
NoError == [msg |-> "", line |-> 0]

\* VM::new
VMNew ==
  [chunk |-> ChunkNew,
   ip |-> 0,
   stack |-> <<>>,
   return_stack |-> <<>>,
   locals |-> [i \in 1..STACK_SIZE |-> Nil],
   locals_base |-> 0,
   locals_top |-> 0,
   heap |-> <<>>,
   status |-> "new",
   error |-> NoError,
   result |-> Nil,
   output |-> <<>>]

\* vm.rs: fn runtime_error / Err(InterpreterError::RuntimeError(..))
RuntimeError(m, msg, line) ==
  [m EXCEPT !.status = "runtime_error", !.error = [msg |-> msg, line |-> line]]

\* a Rust panic: the host process is aborted
Panic(m, msg) == [m EXCEPT !.status = "panic", !.error = [msg |-> msg, line |-> 0]]

\* the run leaves the modelled domain
Unmodelled(m) == [m EXCEPT !.status = "unmodelled"]

Running(m) == m.status = "running"

\* ValueStack::push: `self.stack[self.top] = value; self.top += 1`
Push(m, value) ==
  IF Len(m.stack) >= STACK_SIZE THEN Panic(m, "index out of bounds: value stack")
  ELSE [m EXCEPT !.stack = Append(@, value)]

\* ValueStack::pop, the error case
Underflow(m, line) == RuntimeError(m, "Not enough values on the stack", line)

\* ValueStack::pop, the Ok case: the value and the stack left
Top(m) == Last(m.stack)

Drop(m) == [m EXCEPT !.stack = Front(@)]

\* ValueStack::pop_multi
PopMulti(m, n, line) ==
  IF Len(m.stack) >= n
  THEN [m EXCEPT !.stack = SubSeq(@, 1, Len(@) - n)]
  ELSE Underflow(m, line)

\* ValueStack::peek
Peek(m) == IF Len(m.stack) >= 1 THEN Last(m.stack) ELSE Nil

\* can read_byte be called n more times without indexing past the code
CanRead(m, n) == m.ip >= 0 /\ m.ip + n <= Len(m.chunk.code)

\* VM::read_byte (the byte; the caller advances ip)
ReadByte(m) == ByteAt(m.chunk.code, m.ip)

\* read_signed_16 without the cast to i16
ReadUnsigned16(m) ==
  ByteAt(m.chunk.code, m.ip) + U8_RANGE * ByteAt(m.chunk.code, m.ip + 1)

\* VM::read_signed_16 at ip
ReadSigned16(m) ==
  LET u == ByteAt(m.chunk.code, m.ip) + U8_RANGE * ByteAt(m.chunk.code, m.ip + 1)
  IN IF u >= I16_RANGE \div 2 THEN u - I16_RANGE ELSE u

Advance(m, n) == [m EXCEPT !.ip = @ + n]

\* new_reference_type that reuses the last heap index once the heap is not empty
NewReferenceTypeInPlace(m, object) ==
  IF m.heap = <<>> THEN [m EXCEPT !.heap = Append(@, object)]
  ELSE [m EXCEPT !.heap[Len(m.heap)] = object]

\* VM::new_reference_type; the id returned is Len(heap) - 1 afterwards
NewReferenceType(m, object) == [m EXCEPT !.heap = Append(@, object)]

ArrayObject(items) == [t |-> "Array", items |-> items]

\* a HashMap<HashableValue, Value>: the entries <<key, value>>, keys distinct
MapObject(entries) == [t |-> "Map", entries |-> entries]

ExternalObject(name) == [t |-> "External", name |-> name]

\* impl Display for Value
Display(v) ==
  CASE v.t = "Nil" -> "nil"
    [] v.t = "Number" -> IF is_finite(v) THEN ToString(v.v) ELSE v.nf
    [] v.t = "Boolean" -> IF v.v THEN "true" ELSE "false"
    [] v.t = "String" -> v.v
    [] v.t = "ReferenceId" -> "RefId(" \o ToString(v.v) \o ")"
    [] v.t = "Range" -> ToString(v.l) \o ".." \o ToString(v.r)

\* Return that leaves locals_top where the callee had it
ExecReturnKeepingLocals(m, line) ==
  IF Len(m.return_stack) > 0
  THEN [m EXCEPT !.return_stack = Front(@),
                 !.locals_base = Last(m.return_stack).locals_base,
                 !.ip = Last(m.return_stack).return_address]
  ELSE IF Len(m.stack) >= 1
       THEN [Drop(m) EXCEPT !.status = "ok", !.result = Top(m)]
       ELSE Underflow(m, line)

\* OpCode::Return
ExecReturn(m, line) ==
  IF Len(m.return_stack) > 0
  THEN LET call_frame == Last(m.return_stack)
       IN [m EXCEPT !.return_stack = Front(@),
                    !.locals_top = m.locals_base,
                    !.locals_base = call_frame.locals_base,
                    !.ip = call_frame.return_address]
  ELSE IF Len(m.stack) >= 1
       THEN [Drop(m) EXCEPT !.status = "ok", !.result = Top(m)]
       ELSE Underflow(m, line)

\* OpCode::Constant
ExecConstant(m, line) ==
  IF ~CanRead(m, 1) THEN Panic(m, "index out of bounds: code")
  ELSE LET constant_number == ReadByte(m)
       IN IF constant_number >= Len(m.chunk.constants)
          THEN Panic(Advance(m, 1), "index out of bounds: constants")
          ELSE Push(Advance(m, 1), m.chunk.constants[constant_number + 1])

\* OpCode::Negate
ExecNegate(m, line) ==
  IF Len(m.stack) < 1 THEN Underflow(m, line)
  ELSE IF Top(m).t = "Number" THEN Push(Drop(m), Number(-Top(m).v))
       ELSE RuntimeError(Drop(m), "Bad argument to negate, not a number.", line)

\* the arithmetic and relational operators of binary_op! on Numbers
ApplyOp(op, a, b) ==
  CASE op = OpAdd -> Number(a + b)
    [] op = OpSubtract -> Number(a - b)
    [] op = OpMultiply -> Number(a * b)
    [] op = OpTestLess -> Boolean(a < b)
    [] op = OpTestLessOrEqual -> Boolean(a <= b)
    [] op = OpTestGreater -> Boolean(a > b)
    [] op = OpTestGreaterOrEqual -> Boolean(a >= b)

\* macro binary_op!: a is popped first, then b; the result is `a op b`
BinaryOp(m, op, line) ==
  IF Len(m.stack) < 1 THEN Underflow(m, line)
  ELSE LET a == Top(m)
           m1 == Drop(m)
       IN IF a.t # "Number"
          THEN RuntimeError(m1, "Bad argument to binary operator, not a number.", line)
          ELSE IF Len(m1.stack) < 1 THEN Underflow(m1, line)
               ELSE LET b == Top(m1)
                        m2 == Drop(m1)
                    IN IF b.t # "Number"
                       THEN RuntimeError(m2, "Bad argument to binary operator, not a number.",
                                         line)
                       ELSE Push(m2, ApplyOp(op, a.v, b.v))

\* what the build makes of `n as u8` for an f64 outside 0..255: the cast
\* saturates in builds of rustc 1.45 and later; in earlier builds it is
\* undefined behaviour, of which keeping the low byte is the usual outcome
FloatCasts == {"saturating", "low_byte"}

\* `n as u8` for a finite f64 holding an integer
AsU8(n, float_cast) ==
  IF n >= 0 /\ n < U8_RANGE THEN n
  ELSE IF float_cast = "saturating" THEN (IF n < 0 THEN 0 ELSE U8_RANGE - 1)
  ELSE U8(n)

\* `code as char` for a u8, as the text the String holds after push
Char(code) ==
  CASE code = 97 -> "a"
    [] code = 98 -> "b"
    [] code = 99 -> "c"
    [] OTHER -> "\\u{" \o ToString(code) \o "}"

\* the character `n as u8 as char` appended by String + Number
CharOf(n, float_cast) == Char(AsU8(n, float_cast))

\* OpCode::Add
ExecAdd(m, float_cast, line) ==
  LET top == Peek(m)
  IN IF top.t = "Number" THEN BinaryOp(m, OpAdd, line)
     ELSE IF top.t = "String"
          THEN LET aa == Top(m)
                   m1 == Drop(m)
               IN IF Len(m1.stack) < 1 THEN Underflow(m1, line)
                  ELSE LET b == Top(m1)
                           m2 == Drop(m1)
                       IN IF b.t = "String" THEN Push(m2, String(aa.v \o b.v))
                          ELSE IF b.t = "Number" THEN Push(m2, String(aa.v \o CharOf(b.v, float_cast)))
                          ELSE RuntimeError(m2,
                                 "Bad argument to binary operator, string must have string or char on RHS.",
                                 line)
          ELSE RuntimeError(m, "Bad or mismatched arguments to +", line)

\* OpCode::Divide and OpCode::Remainder on Numbers whose quotient is an integer;
\* other operands leave the integers and end the run as "unmodelled"
ExecDivRem(m, op, line) ==
  IF Len(m.stack) < 1 THEN Underflow(m, line)
  ELSE LET a == Top(m)
           m1 == Drop(m)
       IN IF a.t # "Number"
          THEN RuntimeError(m1, "Bad argument to binary operator, not a number.", line)
          ELSE IF Len(m1.stack) < 1 THEN Underflow(m1, line)
               ELSE LET b == Top(m1)
                        m2 == Drop(m1)
                    IN IF b.t # "Number"
                       THEN RuntimeError(m2, "Bad argument to binary operator, not a number.",
                                         line)
                       ELSE IF b.v = 0
                            THEN Push(m2, CASE op = OpDivide /\ a.v > 0 -> Infinity
                                            [] op = OpDivide /\ a.v < 0 -> NegInfinity
                                            [] OTHER -> NaN)
                            ELSE IF a.v < 0 \/ b.v < 0 \/ (op = OpDivide /\ a.v % b.v # 0)
                            THEN Unmodelled(m2)
                            ELSE IF op = OpDivide THEN Push(m2, Number(a.v \div b.v))
                                 ELSE Push(m2, Number(a.v % b.v))

\* OpCode::Print
ExecPrint(m, line) ==
  IF Len(m.stack) < 1 THEN Underflow(m, line)
  ELSE IF Top(m).t = "MapForContext"
       THEN Panic(Drop(m), "Attempted to display map for context.")
       ELSE [Drop(m) EXCEPT !.output = Append(@, Display(Top(m)))]

\* OpCode::AssignLocal
ExecAssignLocal(m, line) ==
  IF ~CanRead(m, 1) THEN Panic(m, "index out of bounds: code")
  ELSE LET number == ReadByte(m) + m.locals_base
           m1 == Advance(m, 1)
       IN IF number >= m.locals_top THEN RuntimeError(m1, "Local store out of range", line)
          ELSE IF Len(m1.stack) < 1 THEN Underflow(m1, line)
          ELSE IF number >= STACK_SIZE THEN Panic(Drop(m1), "index out of bounds: locals")
          ELSE [Drop(m1) EXCEPT !.locals[number + 1] = Top(m1)]

\* OpCode::LoadLocal
ExecLoadLocal(m, line) ==
  IF ~CanRead(m, 1) THEN Panic(m, "index out of bounds: code")
  ELSE LET number == ReadByte(m) + m.locals_base
           m1 == Advance(m, 1)
       IN IF number >= m.locals_top THEN RuntimeError(m1, "Local load out of range", line)
          ELSE IF number >= STACK_SIZE THEN Panic(m1, "index out of bounds: locals")
          ELSE Push(m1, m1.locals[number + 1])

\* OpCode::Pop
ExecPop(m, line) == IF Len(m.stack) < 1 THEN Underflow(m, line) ELSE Drop(m)

\* OpCode::FunctionEntry
ExecFunctionEntry(m, line) ==
  IF ~CanRead(m, 1) THEN Panic(m, "index out of bounds: code")
  ELSE [Advance(m, 1) EXCEPT !.locals_top = m.locals_base + ReadByte(m)]

\* OpCode::Call
ExecCall(m, line) ==
  IF ~CanRead(m, 1) THEN Panic(m, "index out of bounds: code")
  ELSE LET fn_number == ReadByte(m)
           m1 == Advance(m, 1)
       IN IF Len(m1.return_stack) >= STACK_SIZE
          THEN Panic(m1, "index out of bounds: return stack")
          ELSE IF fn_number >= Len(m1.chunk.function_locations)
               THEN Panic([m1 EXCEPT !.return_stack =
                              Append(@, [return_address |-> m1.ip,
                                         locals_base |-> m1.locals_base])],
                          "index out of bounds: function_locations")
               ELSE [m1 EXCEPT !.return_stack =
                                  Append(@, [return_address |-> m1.ip,
                                             locals_base |-> m1.locals_base]),
                               !.ip = m1.chunk.function_locations[fn_number + 1],
                               !.locals_base = m1.locals_top]

\* OpCode::JumpIfFalse
ExecJumpIfFalse(m, line) ==
  IF ~CanRead(m, 2) THEN Panic(m, "index out of bounds: code")
  ELSE LET target == ReadSigned16(m)
           m1 == Advance(m, 2)
       IN IF Len(m1.stack) < 1 THEN Underflow(m1, line)
          ELSE IF is_falsey(Top(m1)) THEN Advance(Drop(m1), target)
          ELSE Drop(m1)

\* OpCode::JumpIfTrue
ExecJumpIfTrue(m, line) ==
  IF ~CanRead(m, 2) THEN Panic(m, "index out of bounds: code")
  ELSE LET target == ReadSigned16(m)
           m1 == Advance(m, 2)
       IN IF Len(m1.stack) < 1 THEN Underflow(m1, line)
          ELSE IF is_truey(Top(m1)) THEN Advance(Drop(m1), target)
          ELSE Drop(m1)

\* OpCode::Jump
ExecJump(m, line) ==
  IF ~CanRead(m, 2) THEN Panic(m, "index out of bounds: code")
  ELSE Advance(Advance(m, 2), ReadSigned16(m))

\* OpCode::TestEqual and OpCode::TestNotEqual
ExecTestEqual(m, negate, line) ==
  IF Len(m.stack) < 1 THEN Underflow(m, line)
  ELSE LET a == Top(m)
           m1 == Drop(m)
       IN IF Len(m1.stack) < 1 THEN Underflow(m1, line)
          ELSE Push(Drop(m1), Boolean(ValueEq(a, Top(m1)) # negate))

\* OpCode::Not
ExecNot(m, line) ==
  IF Len(m.stack) < 1 THEN Underflow(m, line)
  ELSE Push(Drop(m), Boolean(is_falsey(Top(m))))

\* OpCode::Dup
ExecDup(m, line) == Push(m, Peek(m))

\* OpCode::PopMulti
ExecPopMulti(m, line) ==
  IF ~CanRead(m, 1) THEN Panic(m, "index out of bounds: code")
  ELSE PopMulti(Advance(m, 1), ReadByte(m), line)

\* MakeRange with the upper bound included
ExecMakeRangeInclusive(m, line) ==
  IF Len(m.stack) < 2 THEN Underflow(m, line)
  ELSE IF Top(m).t # "Number" \/ Top(Drop(m)).t # "Number"
       THEN RuntimeError(Drop(Drop(m)), "Expected number in range bounds", line)
       ELSE Push(Drop(Drop(m)), Range(Top(Drop(m)).v, Top(m).v + 1))

\* OpCode::MakeRange
ExecMakeRange(m, line) ==
  IF Len(m.stack) < 1 THEN Underflow(m, line)
  ELSE LET right == Top(m)
           m1 == Drop(m)
       IN IF right.t # "Number" THEN RuntimeError(m1, "Expected number in range bounds", line)
          ELSE IF Len(m1.stack) < 1 THEN Underflow(m1, line)
          ELSE LET left == Top(m1)
                   m2 == Drop(m1)
               IN IF left.t # "Number"
                  THEN RuntimeError(m2, "Expected number in range bounds", line)
                  ELSE Push(m2, Range(left.v, right.v))

(***************************************************************************)
(* value.rs: HashableValue.  A SanitizedFloat is sign * mantissa *         *)
(* 2^exponent; the integers used here are decomposed with exponent 0.      *)
(***************************************************************************)
\* SanitizedFloat::try_from (every integer is finite)
SanitizedFloat(n) ==
  [mantissa |-> IF n < 0 THEN -n ELSE n, exponent |-> 0, sign |-> IF n < 0 THEN -1 ELSE 1]

\* SanitizedFloat::to_f64
to_f64(sf) == sf.sign * sf.mantissa * (2 ^ sf.exponent)

\* does HashableValue::try_from return Ok
CanHash(value) == value.t # "MapForContext" /\ (value.t = "Number" => is_finite(value))

\* HashableValue::try_from, the message of the Err case
HashError(value) ==
  IF value.t = "MapForContext"
  THEN "Tried to hash map for context, this should never happen."
  ELSE "Tried to hash bad float."

\* HashableValue::try_from, the Ok case
Hashable(value) ==
  CASE value.t = "Nil" -> [h |-> "Nil"]
    [] value.t = "Number" -> [h |-> "Number", f |-> SanitizedFloat(value.v)]
    [] value.t = "Boolean" -> [h |-> "Boolean", b |-> value.v]
    [] value.t = "String" -> [h |-> "String", s |-> value.v]
    [] value.t = "ReferenceId" -> [h |-> "ReferenceId", id |-> value.v]
    [] value.t = "Range" ->
         [h |-> "Range", l |-> SanitizedFloat(value.l), r |-> SanitizedFloat(value.r)]

\* Value::from(&HashableValue)
ValueFrom(hv) ==
  CASE hv.h = "Nil" -> Nil
    [] hv.h = "Number" -> Number(to_f64(hv.f))
    [] hv.h = "Boolean" -> Boolean(hv.b)
    [] hv.h = "String" -> String(hv.s)
    [] hv.h = "ReferenceId" -> ReferenceId(hv.id)
    [] hv.h = "Range" -> Range(to_f64(hv.l), to_f64(hv.r))

\* derive(PartialEq, Eq) for HashableValue
HashableEq(a, b) == a.h = b.h /\ a = b

RECURSIVE MapFind(_, _, _)
\* the index of key among the entries from i on, 0 when absent
MapFind(entries, key, i) ==
  IF i > Len(entries) THEN 0
  ELSE IF HashableEq(entries[i][1], key) THEN i
  ELSE MapFind(entries, key, i + 1)

\* HashMap::get(..).unwrap_or(&Value::Nil)
MapGet(entries, key) ==
  LET i == MapFind(entries, key, 1)
  IN IF i = 0 THEN Nil ELSE entries[i][2]

\* HashMap::insert
MapPut(entries, key, value) ==
  LET i == MapFind(entries, key, 1)
  IN IF i = 0 THEN Append(entries, <<key, value>>)
     ELSE [entries EXCEPT ![i] = <<key, value>>]

\* `n as usize` of an f64
AsUsize(n) == IF n < 0 THEN 0 ELSE n

\* Vec::resize(n, Value::Nil)
\* Vec::resize filling with a Number
ResizeWithZero(items, n) ==
  IF n <= Len(items) THEN SubSeq(items, 1, n)
  ELSE items \o [i \in 1..(n - Len(items)) |-> Number(0)]

Resize(items, n) ==
  IF n <= Len(items) THEN SubSeq(items, 1, n)
  ELSE items \o [i \in 1..(n - Len(items)) |-> Nil]

\* the bytes of the strings that programs index
StringBytes(s) ==
  CASE s = "abc" -> <<97, 98, 99>>
    [] s = "ab" -> <<97, 98>>
    [] s = "a" -> <<97>>
    [] s = "b" -> <<98>>
    [] s = "" -> <<>>

IsKnownString(s) == s \in {"abc", "ab", "a", ""}

\* is value a ReferenceId into the heap whose object has kind t
RefersTo(m, value, t) ==
  /\ value.t = "ReferenceId"
  /\ value.v < Len(m.heap)
  /\ m.heap[value.v + 1].t = t

(***************************************************************************)
(* vm.rs: the instructions that use the heap                               *)
(***************************************************************************)
\* OpCode::Index
ExecIndex(m, line) ==
  IF Len(m.stack) < 1 THEN Underflow(m, line)
  ELSE LET the_value == Top(m)
           m1 == Drop(m)
       IN IF Len(m1.stack) < 1 THEN Underflow(m1, line)
          ELSE LET indexer == Top(m1)
                   m2 == Drop(m1)
               IN CASE indexer.t = "String" ->
                         IF the_value.t # "Number"
                         THEN RuntimeError(m2, "Index must be number.", line)
                         ELSE IF ~IsKnownString(indexer.v) THEN Unmodelled(m2)
                         ELSE IF AsUsize(the_value.v) >= Len(StringBytes(indexer.v))
                         THEN Panic(m2, "index out of bounds: string")
                         ELSE Push(m2, Number(StringBytes(indexer.v)[AsUsize(the_value.v) + 1]))
                    [] indexer.t = "ReferenceId" ->
                         IF indexer.v >= Len(m2.heap) THEN Panic(m2, "index out of bounds: heap")
                         ELSE LET id == indexer.v
                                  ref_type == m2.heap[id + 1]
                              IN CASE ref_type.t = "Array" ->
                                        IF the_value.t # "Number"
                                        THEN RuntimeError(m2, "Index must be number.", line)
                                        ELSE LET v == AsUsize(the_value.v)
                                                 a == IF v >= Len(ref_type.items)
                                                      THEN Resize(ref_type.items, v + 1)
                                                      ELSE ref_type.items
                                             IN Push([m2 EXCEPT !.heap[id + 1].items = a],
                                                     a[v + 1])
                                   [] ref_type.t = "Map" ->
                                        IF ~CanHash(the_value)
                                        THEN Panic(m2, "called unwrap on an Err value")
                                        ELSE Push(m2, MapGet(ref_type.entries,
                                                             Hashable(the_value)))
                                   [] OTHER ->
                                        RuntimeError(m2, "Don't know how to index that.", line)
                    [] OTHER -> RuntimeError(m2, "Don't know how to index that.", line)

\* OpCode::NewArray
ExecNewArray(m, line) ==
  LET m1 == NewReferenceType(m, ArrayObject(<<>>))
  IN Push(m1, ReferenceId(Len(m1.heap) - 1))

\* OpCode::NewMap
ExecNewMap(m, line) ==
  LET m1 == NewReferenceType(m, MapObject(<<>>))
  IN Push(m1, ReferenceId(Len(m1.heap) - 1))

\* OpCode::PushArray
\* PushArray that puts the value in front of the items
ExecPushArrayInFront(m, line) ==
  IF Len(m.stack) < 2 THEN Underflow(m, line)
  ELSE LET value == Top(m)
           array == Top(Drop(m))
           m2 == Drop(Drop(m))
       IN Push([m2 EXCEPT !.heap[array.v + 1].items = <<value>> \o @], ReferenceId(array.v))

ExecPushArray(m, line) ==
  IF Len(m.stack) < 1 THEN Underflow(m, line)
  ELSE LET value == Top(m)
           m1 == Drop(m)
       IN IF Len(m1.stack) < 1 THEN Underflow(m1, line)
          ELSE LET array == Top(m1)
                   m2 == Drop(m1)
               IN IF array.t # "ReferenceId"
                  THEN RuntimeError(m2, "Array push on non-array", line)
                  ELSE IF array.v >= Len(m2.heap)
                  THEN Panic(m2, "index out of bounds: heap")
                  ELSE IF m2.heap[array.v + 1].t # "Array"
                  THEN RuntimeError(m2, "Array push on non-array", line)
                  ELSE Push([m2 EXCEPT !.heap[array.v + 1].items = Append(@, value)],
                            ReferenceId(array.v))

\* OpCode::PushMap
ExecPushMap(m, line) ==
  IF Len(m.stack) < 3
  THEN Underflow([m EXCEPT !.stack = <<>>], line)
  ELSE LET value == m.stack[Len(m.stack)]
           key == m.stack[Len(m.stack) - 1]
           map == m.stack[Len(m.stack) - 2]
           m3 == [m EXCEPT !.stack = SubSeq(@, 1, Len(@) - 3)]
       IN IF map.t # "ReferenceId" THEN RuntimeError(m3, "Map push on non-map", line)
          ELSE IF map.v >= Len(m3.heap) THEN Panic(m3, "index out of bounds: heap")
          ELSE IF m3.heap[map.v + 1].t # "Map"
          THEN RuntimeError(m3, "Map push on non-map", line)
          ELSE IF ~CanHash(key)
          THEN RuntimeError(m3, HashError(key), line)
          ELSE Push([m3 EXCEPT !.heap[map.v + 1].entries = MapPut(@, Hashable(key), value)],
                    ReferenceId(map.v))

\* OpCode::IndexAssign
ExecIndexAssign(m, line) ==
  IF Len(m.stack) < 3
  THEN Underflow([m EXCEPT !.stack = <<>>], line)
  ELSE LET new_value == m.stack[Len(m.stack)]
           index_value == m.stack[Len(m.stack) - 1]
           indexer == m.stack[Len(m.stack) - 2]
           m3 == [m EXCEPT !.stack = SubSeq(@, 1, Len(@) - 3)]
       IN IF indexer.t # "ReferenceId"
          THEN RuntimeError(m3, "Don't know how to index assign that", line)
          ELSE IF indexer.v >= Len(m3.heap) THEN Panic(m3, "index out of bounds: heap")
          ELSE LET id == indexer.v
                   ref_type == m3.heap[id + 1]
               IN CASE ref_type.t = "Array" ->
                         IF index_value.t # "Number"
                         THEN RuntimeError(m3, "Index must be number.", line)
                         ELSE LET n == AsUsize(index_value.v)
                                  a == IF n >= Len(ref_type.items)
                                       THEN Resize(ref_type.items, n + 1)
                                       ELSE ref_type.items
                              IN [m3 EXCEPT !.heap[id + 1].items = [a EXCEPT ![n + 1] = new_value]]
                    [] ref_type.t = "Map" ->
                         IF ~CanHash(index_value)
                         THEN RuntimeError(m3, HashError(index_value), line)
                         ELSE [m3 EXCEPT !.heap[id + 1].entries =
                                           MapPut(@, Hashable(index_value), new_value)]
                    [] OTHER -> RuntimeError(m3, "Don't know how to index assign that", line)

\* the locals cell ForLoop writes: `self.locals[local_n as usize + self.locals_base] = v`
SetLoopLocal(m, local_n, v) ==
  IF local_n + m.locals_base >= STACK_SIZE THEN Panic(m, "index out of bounds: locals")
  ELSE [m EXCEPT !.locals[local_n + m.locals_base + 1] = v]

\* the first key `m.keys()` yields, at every turn
KeysFirstOnly(entries, order) == [i \in 1..Len(entries) |-> entries[order[1]][1]]

\* the keys of a map in the order `m.keys()` yields them, order being a permutation of
\* the entries (a HashMap iterates in an arbitrary order)
KeysInOrder(entries, order) == [i \in 1..Len(entries) |-> entries[order[i]][1]]

\* OpCode::ForLoop
ExecForLoop(m, order, line) ==
  IF ~CanRead(m, 3) THEN Panic(m, "index out of bounds: code")
  ELSE LET local_n == ReadByte(m)
           jump_target == ReadSigned16(Advance(m, 1))
           m1 == Advance(m, 3)
           target_ip == m1.ip + jump_target
       IN IF Len(m1.stack) < 1 THEN Underflow(m1, line)
          ELSE LET range == Top(m1)
                   m2 == Drop(m1)
               IN CASE range.t = "Range" ->
                         IF range.l < range.r
                         THEN LET m3 == SetLoopLocal(m2, local_n, Number(range.l))
                              IN IF Running(m3) THEN Push(m3, Range(range.l + 1, range.r))
                                 ELSE m3
                         ELSE [m2 EXCEPT !.ip = target_ip]
                    [] range.t = "ReferenceId" ->
                         IF range.v >= Len(m2.heap) THEN Panic(m2, "index out of bounds: heap")
                         ELSE LET ref_type == m2.heap[range.v + 1]
                              IN CASE ref_type.t = "Array" ->
                                        IF Len(ref_type.items) > 0
                                        THEN LET m3 == SetLoopLocal(m2, local_n, Number(0))
                                             IN IF Running(m3)
                                                THEN Push(m3, Range(1, Len(ref_type.items)))
                                                ELSE m3
                                        ELSE [m2 EXCEPT !.ip = target_ip]
                                   [] ref_type.t = "Map" ->
                                        LET keys == KeysInOrder(ref_type.entries, order)
                                            len == Len(keys)
                                        IN IF len > 0
                                           THEN LET m3 == SetLoopLocal(m2, local_n,
                                                                      ValueFrom(keys[1]))
                                                IN IF Running(m3)
                                                   THEN Push(m3, MapForContext(keys, 1, len))
                                                   ELSE m3
                                           ELSE [m2 EXCEPT !.ip = target_ip]
                                   [] OTHER ->
                                        RuntimeError(m2, "Don't know how to for over that", line)
                    [] range.t = "MapForContext" ->
                         IF range.l < range.r
                         THEN LET m3 == SetLoopLocal(m2, local_n, ValueFrom(range.keys[range.l + 1]))
                              IN IF Running(m3)
                                 THEN Push(m3, MapForContext(range.keys, range.l + 1, range.r))
                                 ELSE m3
                         ELSE [m2 EXCEPT !.ip = m1.ip + jump_target]
                    [] OTHER -> RuntimeError(m2, "Don't know how to for over that", line)

\* Vec::remove(i), the vector left
RemoveAt(items, i) == SubSeq(items, 1, i) \o SubSeq(items, i + 2, Len(items))

\* Vec::insert(i, v)
InsertAt(items, i, v) == SubSeq(items, 1, i) \o <<v>> \o SubSeq(items, i + 1, Len(items))

\* OpCode::BuiltinCall, receiver an Array at heap index id
BuiltinArray(m, id, builtin, line) ==
  LET a == m.heap[id + 1].items
  IN CASE builtin = "len" -> Push(m, Number(Len(a)))
       [] builtin = "push" ->
            IF Len(m.stack) < 1 THEN Underflow(m, line)
            ELSE Push([Drop(m) EXCEPT !.heap[id + 1].items = Append(a, Top(m))], Nil)
       [] builtin = "pop" ->
            IF Len(a) = 0 THEN Panic(m, "called unwrap on a None value")
            ELSE Push([m EXCEPT !.heap[id + 1].items = Front(a)], Last(a))
       [] builtin = "remove" ->
            IF Len(m.stack) < 1 THEN Underflow(m, line)
            ELSE LET to_remove == Top(m)
                     m1 == Drop(m)
                 IN IF to_remove.t # "Number"
                    THEN RuntimeError(m1, "Attempt to remove non-integer index from array", line)
                    ELSE IF AsUsize(to_remove.v) >= Len(a)
                    THEN Panic(m1, "removal index out of bounds")
                    ELSE Push([m1 EXCEPT !.heap[id + 1].items = RemoveAt(a, AsUsize(to_remove.v))],
                              a[AsUsize(to_remove.v) + 1])
       [] builtin = "insert" ->
            IF Len(m.stack) < 2 THEN Underflow([m EXCEPT !.stack = <<>>], line)
            ELSE LET to_insert_val == m.stack[Len(m.stack)]
                     to_insert == m.stack[Len(m.stack) - 1]
                     m2 == [m EXCEPT !.stack = SubSeq(@, 1, Len(@) - 2)]
                 IN IF to_insert.t # "Number"
                    THEN RuntimeError(m2, "Attempt to insert non-integer index from array", line)
                    ELSE IF AsUsize(to_insert.v) > Len(a)
                    THEN Panic(m2, "insertion index out of bounds")
                    ELSE Push([m2 EXCEPT !.heap[id + 1].items =
                                            InsertAt(a, AsUsize(to_insert.v), to_insert_val)],
                              Nil)
       [] builtin = "sort" -> Unmodelled(m)
       [] builtin = "resize" ->
            IF Len(m.stack) < 1 THEN Underflow(m, line)
            ELSE IF Top(m).t # "Number" THEN Panic(Drop(m), "Bad arg to array resize.")
            ELSE Push([Drop(m) EXCEPT !.heap[id + 1].items = Resize(a, AsUsize(Top(m).v))], Nil)
       [] OTHER -> RuntimeError(m, "Unknown array builtin", line)

\* OpCode::BuiltinCall, receiver a String
BuiltinString(m, s, builtin, line) ==
  CASE builtin = "len" -> Push(m, Number(Len(s)))
    [] builtin = "readFile" -> Unmodelled(m)
    [] builtin = "split" ->
         IF Len(m.stack) < 1 THEN Underflow(m, line)
         ELSE IF Top(m).t = "String" THEN Unmodelled(Drop(m))
         ELSE RuntimeError(Drop(m), "Expected string argument to split", line)
    [] builtin = "parseNumber" -> Unmodelled(m)
    [] builtin = "regex" ->
         LET m1 == NewReferenceType(m, ExternalObject(s))
         IN Push(m1, ReferenceId(Len(m1.heap) - 1))
    [] OTHER -> RuntimeError(m, "Unknown string builtin", line)

\* OpCode::BuiltinCall
ExecBuiltinCall(m, line) ==
  IF Len(m.stack) < 2 THEN Underflow([m EXCEPT !.stack = <<>>], line)
  ELSE LET builtin == m.stack[Len(m.stack)]
           callee == m.stack[Len(m.stack) - 1]
           m2 == [m EXCEPT !.stack = SubSeq(@, 1, Len(@) - 2)]
       IN IF builtin.t # "String" THEN RuntimeError(m2, "Expected builtin name", line)
          ELSE IF builtin.v = "to_string"
          THEN IF callee.t = "MapForContext"
               THEN Panic(m2, "Attempted to display map for context.")
               ELSE Push(m2, String(Display(callee)))
          ELSE CASE callee.t = "ReferenceId" ->
                      IF callee.v >= Len(m2.heap) THEN Panic(m2, "index out of bounds: heap")
                      ELSE LET ref_type == m2.heap[callee.v + 1]
                           IN CASE ref_type.t = "Array" ->
                                     BuiltinArray(m2, callee.v, builtin.v, line)
                                [] ref_type.t = "External" ->
                                     IF builtin.v = "match" THEN Unmodelled(m2)
                                     ELSE Panic(m2, "Bad call to regex.")
                                [] OTHER -> RuntimeError(m2, "Unknown builtin", line)
                 [] callee.t = "String" -> BuiltinString(m2, callee.v, builtin.v, line)
                 [] callee.t = "Number" ->
                      IF builtin.v = "floor" THEN Push(m2, Number(callee.v)) ELSE m2
                 [] OTHER -> RuntimeError(m2, "Unknown builtin", line)

\* OpCode::LoadGlobal: pop the name, push chunk.globals[name] or Nil
ExecLoadGlobal(m, line) ==
  IF Len(m.stack) < 1 THEN Underflow(m, line)
  ELSE LET name == Top(m)
       IN IF name.t # "String" THEN RuntimeError(Drop(m), "Expected global name", line)
          ELSE IF MapHas(m.chunk.globals, name.v) THEN Push(Drop(m), m.chunk.globals[name.v])
          ELSE Push(Drop(m), Nil)

\* OpCode::AssignGlobal: pop the name, pop the value, chunk.assign_global(name, value)
ExecAssignGlobal(m, line) ==
  IF Len(m.stack) < 2 THEN Underflow([m EXCEPT !.stack = <<>>], line)
  ELSE LET name == m.stack[Len(m.stack)]
           value == m.stack[Len(m.stack) - 1]
           m2 == [m EXCEPT !.stack = SubSeq(@, 1, Len(@) - 2)]
       IN IF name.t # "String" THEN RuntimeError(m2, "Expected global name", line)
          ELSE [m2 EXCEPT !.chunk.globals = MapInsert(@, name.v, value)]

\* is one of the n values on top of the stack a Number that is not finite
NonFiniteOperand(m, n) ==
  \E i \in 1..Len(m.stack) :
    i > Len(m.stack) - n /\ m.stack[i].t = "Number" /\ ~is_finite(m.stack[i])

\* would the instruction compute with a Number that is not finite: arithmetic on
\* infinities and NaN, and their use as an array or string index, are outside the
\* numbers modelled (a map key is not: hashing it is modelled)
NonFiniteArithmetic(m, instruction) ==
  CASE instruction = OpNegate -> NonFiniteOperand(m, 1)
    [] instruction \in {OpAdd, OpSubtract, OpMultiply, OpDivide, OpRemainder, OpTestLess,
                        OpTestLessOrEqual, OpTestGreater, OpTestGreaterOrEqual,
                        OpMakeRange} -> NonFiniteOperand(m, 2)
    [] instruction = OpBuiltinCall -> NonFiniteOperand(m, Len(m.stack))
    [] instruction = OpIndex ->
         /\ NonFiniteOperand(m, 1)
         /\ Len(m.stack) >= 2
         /\ ~RefersTo(m, m.stack[Len(m.stack) - 1], "Map")
    [] instruction = OpIndexAssign ->
         /\ NonFiniteOperand(m, 2) /\ ~NonFiniteOperand(m, 1)
         /\ Len(m.stack) >= 3
         /\ ~RefersTo(m, m.stack[Len(m.stack) - 2], "Map")
    [] OTHER -> FALSE

\* one iteration of the loop of VM::run: fetch, decode, execute.  order is the order
\* in which a HashMap yields its keys, used when ForLoop starts on a map;
\* float_cast is what the build makes of an out-of-range `as u8`, used by Add.
Step(m, order, float_cast) ==
  IF m.ip < 0 \/ m.ip >= Len(m.chunk.lines) THEN Panic(m, "index out of bounds: lines")
  ELSE LET current_line == m.chunk.lines[m.ip + 1]
           instruction == ByteAt(m.chunk.code, m.ip)
           m1 == Advance(m, 1)
       IN IF NonFiniteArithmetic(m, instruction) THEN Unmodelled(m1)
          ELSE
          CASE instruction = OpReturn -> ExecReturn(m1, current_line)
            [] instruction = OpConstant -> ExecConstant(m1, current_line)
            [] instruction = OpNegate -> ExecNegate(m1, current_line)
            [] instruction = OpAdd -> ExecAdd(m1, float_cast, current_line)
            [] instruction \in {OpSubtract, OpMultiply} -> BinaryOp(m1, instruction, current_line)
            [] instruction \in {OpDivide, OpRemainder} -> ExecDivRem(m1, instruction, current_line)
            [] instruction = OpPrint -> ExecPrint(m1, current_line)
            [] instruction = OpAssignLocal -> ExecAssignLocal(m1, current_line)
            [] instruction = OpLoadLocal -> ExecLoadLocal(m1, current_line)
            [] instruction = OpPushNil -> Push(m1, Nil)
            [] instruction = OpPop -> ExecPop(m1, current_line)
            [] instruction = OpFunctionEntry -> ExecFunctionEntry(m1, current_line)
            [] instruction = OpCall -> ExecCall(m1, current_line)
            [] instruction = OpJumpIfFalse -> ExecJumpIfFalse(m1, current_line)
            [] instruction = OpJump -> ExecJump(m1, current_line)
            [] instruction \in {OpTestLess, OpTestLessOrEqual, OpTestGreater,
                                OpTestGreaterOrEqual} -> BinaryOp(m1, instruction, current_line)
            [] instruction = OpTestEqual -> ExecTestEqual(m1, FALSE, current_line)
            [] instruction = OpTestNotEqual -> ExecTestEqual(m1, TRUE, current_line)
            [] instruction = OpIndex -> ExecIndex(m1, current_line)
            [] instruction = OpNewArray -> ExecNewArray(m1, current_line)
            [] instruction = OpPushArray -> ExecPushArray(m1, current_line)
            [] instruction = OpIndexAssign -> ExecIndexAssign(m1, current_line)
            [] instruction = OpBuiltinCall -> ExecBuiltinCall(m1, current_line)
            [] instruction = OpMakeRange -> ExecMakeRange(m1, current_line)
            [] instruction = OpForLoop -> ExecForLoop(m1, order, current_line)
            [] instruction = OpPopMulti -> ExecPopMulti(m1, current_line)
            [] instruction = OpPushTrue -> Push(m1, Boolean(TRUE))
            [] instruction = OpPushFalse -> Push(m1, Boolean(FALSE))
            [] instruction = OpNewMap -> ExecNewMap(m1, current_line)
            [] instruction = OpPushMap -> ExecPushMap(m1, current_line)
            [] instruction = OpNot -> ExecNot(m1, current_line)
            [] instruction = OpDup -> ExecDup(m1, current_line)
            [] instruction = OpJumpIfTrue -> ExecJumpIfTrue(m1, current_line)
            [] instruction = OpAssignGlobal -> ExecAssignGlobal(m1, current_line)
            [] instruction = OpLoadGlobal -> ExecLoadGlobal(m1, current_line)
            [] OTHER -> RuntimeError(m1, "Bad instruction", current_line)

\* VM::interpret up to the call of run, given what compiler::compile(source)
\* returned: the chunk is replaced and ip set to main
Interpret(m, compiler) ==
  IF Failed(compiler)
  THEN IF compiler.err = Overflow
       THEN Panic(m, Overflow)
       ELSE [m EXCEPT !.status = "compile_error", !.error = [msg |-> compiler.err, line |-> 0]]
  ELSE IF ~MapHas(compiler.chunk.function_names, "main")
       THEN Panic([m EXCEPT !.chunk = compiler.chunk], "no entry found for key")
       ELSE [m EXCEPT !.chunk = compiler.chunk,
                      !.ip = LookupFunction(compiler.chunk, "main"),
                      !.status = "running",
                      !.error = NoError]

\* debug.rs: the offset of the next instruction minus the offset of this one
InstructionLength(instr) ==
  CASE instr \in {OpConstant, OpAssignLocal, OpLoadLocal, OpFunctionEntry, OpCall,
                  OpPopMulti} -> 2
    [] instr \in {OpJumpIfFalse, OpJump, OpJumpIfTrue} -> 3
    [] instr = OpForLoop -> 4
    [] OTHER -> 1

(***************************************************************************)
(* scanner.rs.  A scanner is the record of struct Scanner's fields, with   *)
(* the source a sequence of characters, and with                           *)
(*   pc      : where the scanner is: "new" (constructed), in scan_token at  *)
(*             the head of skip_whitespace's loop ("skip_whitespace"), at   *)
(*             the head of its comment loop ("comment"), after it ("scan"), *)
(*             or returned: "token" (Ok), "eof" (Ok, EOF), "error" (Err),   *)
(*             "panic"                                                      *)
(*   token   : the Token returned last                                      *)
(*   message : the message of the ScannerError or of the panic             *)
(*   comment : ghost, the index and the line at which the running           *)
(*             scan_token met a line comment, None if it met none           *)
(*   lexeme  : ghost, the index at which the last scan_token found its      *)
(*             lexeme to start, None if it did not get there                *)
(***************************************************************************)
NoToken == [token_type |-> "", start |-> 0, length |-> 0, line |-> 0]

\* Scanner::new, without the keyword table (kw_map below)
ScannerOf(text) ==
  [source |-> text, start |-> 0, current |-> 0, line |-> 1,
   pc |-> "new", token |-> NoToken, message |-> "", comment |-> None, lexeme |-> None]

\* Scanner::new, the keyword table
kw_map ==
     <<"a", "n", "d">> :> "And"
  @@ <<"e", "l", "s", "e">> :> "Else"
  @@ <<"f", "a", "l", "s", "e">> :> "False"
  @@ <<"f", "o", "r">> :> "For"
  @@ <<"f", "n">> :> "Fn"
  @@ <<"i", "f">> :> "If"
  @@ <<"n", "i", "l">> :> "Nil"
  @@ <<"o", "r">> :> "Or"
  @@ <<"p", "r", "i", "n", "t">> :> "Print"
  @@ <<"r", "e", "t", "u", "r", "n">> :> "Return"
  @@ <<"t", "r", "u", "e">> :> "True"
  @@ <<"l", "e", "t">> :> "Let"
  @@ <<"w", "h", "i", "l", "e">> :> "While"

\* fn is_digit
is_digit(c) == c \in {"0", "1", "2", "3", "4", "5", "6", "7", "8", "9"}

\* fn is_alpha
is_alpha(c) ==
  c \in {"a", "b", "c", "d", "e", "f", "g", "h", "i", "j", "k", "l", "m", "n", "o", "p", "q",
         "r", "s", "t", "u", "v", "w", "x", "y", "z", "_",
         "A", "B", "C", "D", "E", "F", "G", "H", "I", "J", "K", "L", "M", "N", "O", "P", "Q",
         "R", "S", "T", "U", "V", "W", "X", "Y", "Z"}

\* a panic of the scanner: self.source indexed past its end
ScannerPanic(s) ==
  [s EXCEPT !.pc = "panic", !.message = "index out of bounds: source"]

\* Err(ScannerError(message))
ScannerError(s, message) == [s EXCEPT !.pc = "error", !.message = message]

\* Scanner::is_at_end
is_at_end(s) == s.current >= Len(s.source)

\* is self.source[i] inside the source
InSource(s, i) == i < Len(s.source)

\* Scanner::peek, where it does not panic: self.source[self.current]
peek(s) == s.source[s.current + 1]

\* Scanner::peek_next past its is_at_end test: self.source[self.current + 1]
peek_next(s) == s.source[s.current + 2]

\* Scanner::advance
advance(s) == [s EXCEPT !.current = @ + 1]

\* Scanner::token_match, the scanner left; it matched iff current moved
token_match(s, expected) ==
  IF is_at_end(s) THEN s
  ELSE IF peek(s) # expected THEN s
  ELSE advance(s)

\* Scanner::make_token, returned in Ok
make_token(s, token_type) ==
  [s EXCEPT !.pc = IF token_type = "EOF" THEN "eof" ELSE "token",
            !.token = [token_type |-> token_type, start |-> s.start,
                       length |-> s.current - s.start, line |-> s.line]]

\* Scanner::skip_whitespace, one turn of `while !self.is_at_end()`, up to the
\* head of the comment loop when a comment starts
SkipWhitespaceStep(s) ==
  IF is_at_end(s) THEN [s EXCEPT !.pc = "scan"]
  ELSE CASE peek(s) \in {" ", "\r", "\t"} -> advance(s)
         [] peek(s) = "\n" -> advance([s EXCEPT !.line = @ + 1])
         [] peek(s) = "/" ->
              IF ~InSource(s, s.current + 1) THEN ScannerPanic(s)
              ELSE IF peek_next(s) = "/"
                   THEN [s EXCEPT !.pc = "comment",
                                  !.comment = IF IsSome(@) THEN @
                                              ELSE Some([at |-> s.current, line |-> s.line])]
                   ELSE [s EXCEPT !.pc = "scan"]
         [] OTHER -> [s EXCEPT !.pc = "scan"]

\* Scanner::skip_whitespace, one test of
\* `while self.peek() != '\n' && self.is_at_end() { self.advance(); }`
CommentStep(s) ==
  IF ~InSource(s, s.current) THEN ScannerPanic(s)
  ELSE IF peek(s) # "\n" /\ is_at_end(s) THEN advance(s)
  ELSE [s EXCEPT !.pc = "skip_whitespace"]

RECURSIVE StringLoop(_)
\* Scanner::string, `while self.peek() != '"' && !self.is_at_end()`
StringLoop(s) ==
  IF ~InSource(s, s.current) THEN ScannerPanic(s)
  ELSE IF peek(s) # "\"" /\ ~is_at_end(s)
       THEN StringLoop(advance(IF peek(s) = "\n" THEN [s EXCEPT !.line = @ + 1] ELSE s))
       ELSE s

\* Scanner::string
string(s) ==
  Bind(StringLoop(s), LAMBDA s1 :
    IF s1.pc = "panic" THEN s1
    ELSE IF is_at_end(s1) THEN ScannerError(s1, "Unterminated string.")
    ELSE make_token(advance(s1), "String"))

RECURSIVE DigitLoop(_)
\* Scanner::number, `while is_digit(self.peek()) { self.advance(); }`
DigitLoop(s) ==
  IF ~InSource(s, s.current) THEN ScannerPanic(s)
  ELSE IF is_digit(peek(s)) THEN DigitLoop(advance(s))
  ELSE s

\* Scanner::number
number(s) ==
  Bind(DigitLoop(s), LAMBDA s1 :
    IF s1.pc = "panic" THEN s1
    ELSE IF peek(s1) # "." THEN make_token(s1, "Number")
    ELSE IF ~InSource(s1, s1.current + 1) THEN ScannerPanic(s1)
    ELSE IF ~is_digit(peek_next(s1)) THEN make_token(s1, "Number")
    ELSE Bind(DigitLoop(advance(s1)), LAMBDA s2 :
           IF s2.pc = "panic" THEN s2 ELSE make_token(s2, "Number")))

RECURSIVE IdentifierLoop(_)
\* Scanner::identifier, `while is_alpha(self.peek()) || is_digit(self.peek())`
IdentifierLoop(s) ==
  IF ~InSource(s, s.current) THEN ScannerPanic(s)
  ELSE IF is_alpha(peek(s)) \/ is_digit(peek(s)) THEN IdentifierLoop(advance(s))
  ELSE s

\* Scanner::identifier_type
identifier_type(s) ==
  LET name == SubSeq(s.source, s.start + 1, s.current)
  IN IF name \in DOMAIN kw_map THEN kw_map[name] ELSE "Identifier"

\* Scanner::identifier
identifier(s) ==
  Bind(IdentifierLoop(s), LAMBDA s1 :
    IF s1.pc = "panic" THEN s1 ELSE make_token(s1, identifier_type(s1)))

\* the token of a character that is a token by itself
SingleCharacterToken ==
     "(" :> "LeftParen" @@ ")" :> "RightParen" @@ "{" :> "LeftBrace" @@ "}" :> "RightBrace"
  @@ ";" :> "Semicolon" @@ "," :> "Comma" @@ "." :> "Dot" @@ "-" :> "Minus"
  @@ "+" :> "Plus" @@ "/" :> "Slash" @@ "*" :> "Star"

\* the tokens of a character that may be followed by `=`: with it, without it
WithEqualToken ==
     "!" :> <<"BangEqual", "Bang">> @@ "=" :> <<"EqualEqual", "Equal">>
  @@ "<" :> <<"LessEqual", "Less">> @@ ">" :> <<"GreaterEqual", "Greater">>

\* Scanner::scan_token after skip_whitespace
ScanAfterWhitespace(s) ==
  Bind([s EXCEPT !.start = s.current, !.lexeme = Some(s.current)], LAMBDA s0 :
    IF is_at_end(s0) THEN make_token(s0, "EOF")
    ELSE Bind(advance(s0), LAMBDA s1 :
      LET c == peek(s0)
      IN CASE c \in DOMAIN SingleCharacterToken -> make_token(s1, SingleCharacterToken[c])
           [] c \in DOMAIN WithEqualToken ->
                Bind(token_match(s1, "="), LAMBDA s2 :
                  make_token(s2, WithEqualToken[c][IF s2.current # s1.current THEN 1 ELSE 2]))
           [] c = "#" ->
                Bind(token_match(s1, "{"), LAMBDA s2 :
                  IF s2.current # s1.current THEN make_token(s2, "HashLeftBrace")
                  ELSE ScannerError(s2, "Unexpected character: # without {."))
           [] c = "\"" -> string(s1)
           [] is_digit(c) -> number(s1)
           [] is_alpha(c) -> identifier(s1)
           [] OTHER -> ScannerError(s1, "Unexpected character.")))

\* no Scanner constructed yet
NoScanner == [ScannerOf(<<>>) EXCEPT !.pc = "none"]

\* the characters source texts are made of, and their greatest length
Alphabet == {"/", "\n", "\"", "a", "1", "@", " "}

MaxSourceLen == 4

Texts == UNION {[1..n -> Alphabet] : n \in 0..MaxSourceLen}

\* Scanner::scan_token, entered: skip_whitespace is about to run
ScanTokenEnter(s) == [s EXCEPT !.pc = "skip_whitespace", !.comment = None, !.lexeme = None]

\* Scanner::scan_token, one step of a call in progress
ScanTokenStep(s) ==
  CASE s.pc = "skip_whitespace" -> SkipWhitespaceStep(s)
    [] s.pc = "comment" -> CommentStep(s)
    [] s.pc = "scan" -> ScanAfterWhitespace(s)

(***************************************************************************)
(* Programs.  Each is the tree the parser builds for the source text given *)
(* in the comment above it.                                                *)
(***************************************************************************)
ES(e) == ExpressionStatement(e)

NoValue(stmts) == Block(stmts, None)

\* the largest argument the Fibonacci program is run with, besides 10
MaxFibArg == 3

\* the largest parameter of the loop and call programs
MaxArg == 3

\* how many lines the REPL reads
MaxLines == 3

\* fn f(n) { if n < 2 { return n; } return f(n-1) + f(n-2); }  fn main() { print f(<n>); }
FibProgram(n) ==
  << FnStatement("f", <<"n">>, NoValue(<<
       ES(If(Binary(Variable("n"), "Less", LitNumber(2)),
             NoValue(<<ES(Return(Some(Variable("n"))))>>), None)),
       ES(Return(Some(Binary(
            Call(Variable("f"), <<Binary(Variable("n"), "Minus", LitNumber(1))>>), "Plus",
            Call(Variable("f"), <<Binary(Variable("n"), "Minus", LitNumber(2))>>))))) >>)),
     FnStatement("main", <<>>, NoValue(<<
       PrintStatement(Call(Variable("f"), <<LitNumber(n)>>)) >>)) >>

\* fn f(n) { if n < 2 { return n; } return 1; }  fn main() { print f(<n>) + 5; }
ReturnTwiceProgram(n) ==
  << FnStatement("f", <<"n">>, NoValue(<<
       ES(If(Binary(Variable("n"), "Less", LitNumber(2)),
             NoValue(<<ES(Return(Some(Variable("n"))))>>), None)),
       ES(Return(Some(LitNumber(1)))) >>)),
     FnStatement("main", <<>>, NoValue(<<
       PrintStatement(Binary(Call(Variable("f"), <<LitNumber(n)>>), "Plus", LitNumber(5))) >>)) >>

\* fn f(n) { let m = n + 1; return m; }  fn main() { print 7 - f(<n>); }
ReturnOnceProgram(n) ==
  << FnStatement("f", <<"n">>, NoValue(<<
       LetStatement("m", Some(Binary(Variable("n"), "Plus", LitNumber(1)))),
       ES(Return(Some(Variable("m")))) >>)),
     FnStatement("main", <<>>, NoValue(<<
       PrintStatement(Binary(LitNumber(7), "Minus",
                             Call(Variable("f"), <<LitNumber(n)>>))) >>)) >>

\* fn h() { return 1; }
\* fn f(n) { let r = 0; if n > 0 { r = f(n - 1) + h(); } return r; }
\* fn main() { print f(<n>); }
RecursionProgram(n) ==
  << FnStatement("h", <<>>, NoValue(<<ES(Return(Some(LitNumber(1))))>>)),
     FnStatement("f", <<"n">>, NoValue(<<
       LetStatement("r", Some(LitNumber(0))),
       ES(If(Binary(Variable("n"), "Greater", LitNumber(0)),
             NoValue(<<ES(Assignment(Variable("r"),
                            Binary(Call(Variable("f"),
                                        <<Binary(Variable("n"), "Minus", LitNumber(1))>>),
                                   "Plus", Call(Variable("h"), <<>>))))>>),
             None)),
       ES(Return(Some(Variable("r")))) >>)),
     FnStatement("main", <<>>, NoValue(<<
       PrintStatement(Call(Variable("f"), <<LitNumber(n)>>)) >>)) >>

\* fn a() { return <v>; }
FnA(v) == FnStatement("a", <<>>, NoValue(<<ES(Return(Some(LitNumber(v))))>>))

\* the ways a program defines the function a that main calls
FunctionKinds == 1..4

\* 1:  fn a() { return 1; }  fn main() { print a(); }
\* 2:  fn main() { fn a() { return 1; } print a(); }
\* 3:  fn a() { return 1; }  fn a() { return 2; }  fn main() { print a(); }
\* 4:  fn main() { fn a() { fn b() { return 3; } return b(); } print a(); }
FunctionsProgram(kind) ==
  LET call == PrintStatement(Call(Variable("a"), <<>>))
      b == FnStatement("b", <<>>, NoValue(<<ES(Return(Some(LitNumber(3))))>>))
  IN CASE kind = 1 -> << FnA(1), FnStatement("main", <<>>, NoValue(<<call>>)) >>
       [] kind = 2 -> << FnStatement("main", <<>>, NoValue(<<FnA(1), call>>)) >>
       [] kind = 3 -> << FnA(1), FnA(2), FnStatement("main", <<>>, NoValue(<<call>>)) >>
       [] kind = 4 ->
            << FnStatement("main", <<>>, NoValue(
                 << FnStatement("a", <<>>, NoValue(
                      <<b, ES(Return(Some(Call(Variable("b"), <<>>))))>>)),
                    call >>)) >>

\* the receivers of the builtin programs: an array, a string, a number, a
\* regex (an External), nil
Receiver(i) ==
  << Array(<<LitNumber(1)>>), LitString("ab"), LitNumber(5),
     BuiltinCall(LitString("a"), "regex", <<>>), LitNil >>[i]

Receivers == 1..5

\* the builtin names called on them
BuiltinNames == {"len", "floor", "to_string", "nope"}

\* fn main() { let x = <receiver>; print x.<name>(); }
BuiltinProgram(receiver, name) ==
  << FnStatement("main", <<>>, NoValue(<<
       LetStatement("x", Some(Receiver(receiver))),
       PrintStatement(BuiltinCall(Variable("x"), name, <<>>)) >>)) >>

\* fn main() { let a = [1]; let m = #{ [1]: 2 }; let r = "a":regex();
\*             a:push(m); a:push([]); print a:len(); }
HeapProgram ==
  LET a == Variable("a")
  IN << FnStatement("main", <<>>, NoValue(<<
          LetStatement("a", Some(Array(<<LitNumber(1)>>))),
          LetStatement("m", Some(Map(<<MapExpression(LitNumber(1), LitNumber(2))>>))),
          LetStatement("r", Some(BuiltinCall(LitString("a"), "regex", <<>>))),
          ES(BuiltinCall(a, "push", <<Variable("m")>>)),
          ES(BuiltinCall(a, "push", <<Array(<<>>)>>)),
          PrintStatement(BuiltinCall(a, "len", <<>>)) >>)) >>

\* the initializers of the top-level let programs: none, the six literals,
\* and expressions that are not literals
LiteralInitializers == {"number", "string", "char", "true", "false", "nil"}

OtherInitializers == {"unary", "binary", "grouping", "variable", "call", "array"}

Initializer(kind) ==
  CASE kind = "none" -> None
    [] kind = "number" -> Some(LitNumber(7))
    [] kind = "string" -> Some(LitString("ab"))
    [] kind = "char" -> Some(LitChar(97))
    [] kind = "true" -> Some(LitTrue)
    [] kind = "false" -> Some(LitFalse)
    [] kind = "nil" -> Some(LitNil)
    [] kind = "unary" -> Some(Unary("Minus", LitNumber(1)))
    [] kind = "binary" -> Some(Binary(LitNumber(1), "Plus", LitNumber(2)))
    [] kind = "grouping" -> Some(Grouping(LitNumber(1)))
    [] kind = "variable" -> Some(Variable("h"))
    [] kind = "call" -> Some(Call(Variable("main"), <<>>))
    [] kind = "array" -> Some(Array(<<>>))

\* fn main() { print g; }   or   fn main() { print 1; }
MainPrinting(uses) ==
  FnStatement("main", <<>>, NoValue(
    << PrintStatement(IF uses THEN Variable("g") ELSE LitNumber(1)) >>))

\* let h = 1; let g = <initializer>; fn main() { .. }
GlobalLetProgram(kind, uses) ==
  << LetStatement("h", Some(LitNumber(1))),
     LetStatement("g", Initializer(kind)),
     MainPrinting(uses) >>

\* the loops, the jumps out of their bodies, and the statement that comes
\* before the jump in the same body
LoopKinds == {"while", "loop", "for"}

LoopJumps == {"break", "continue"}

EarlierStatements == {"none", "break", "continue", "return"}

\* fn main() {
\*   let i = 0;
\*   <while i < 3 | loop | for x in 0..3> {
\*     i += 1;
\*     if i > 3 { break; }
\*     if i == 9 { <earlier>; }
\*     [7, if i == 2 { <jump>; }];
\*     print i;
\*   }
\*   print 9;
\* }
LoopJumpProgram(kind, jump, earlier) ==
  LET i == Variable("i")
      Jump(j) == CASE j = "break" -> Break
                   [] j = "continue" -> Continue
                   [] j = "return" -> Return(None)
      When(cond, j) == ES(If(cond, NoValue(<<ES(Jump(j))>>), None))
      body == NoValue(
        << ES(CompoundAssignment(i, "PlusEqual", LitNumber(1))),
           When(Binary(i, "Greater", LitNumber(3)), "break") >>
        \o (IF earlier = "none" THEN <<>>
            ELSE <<When(Binary(i, "EqualEqual", LitNumber(9)), earlier)>>)
        \o << ES(Array(<< LitNumber(7),
                          If(Binary(i, "EqualEqual", LitNumber(2)),
                             NoValue(<<ES(Jump(jump))>>), None) >>)),
              PrintStatement(i) >>)
  IN << FnStatement("main", <<>>, NoValue(<<
          LetStatement("i", Some(LitNumber(0))),
          ES(CASE kind = "while" -> While(Binary(i, "Less", LitNumber(3)), body)
               [] kind = "loop" -> Loop(body)
               [] kind = "for" -> For("x", None, RangeExpr(LitNumber(0), LitNumber(3)), body)),
          PrintStatement(LitNumber(9)) >>)) >>

\* the names of the parameters of the parameter programs
ParameterNames == <<"p1", "p2", "p3", "p4", "p5">>

\* [fn e(q) { print q; }]
\* fn f(p1, .., pn) { print p1; .. print pn; }
\* fn main() { f(10, .., 10 * n); print 0; }
ParametersProgram(n, earlier) ==
  (IF earlier
   THEN <<FnStatement("e", <<"q">>, NoValue(<<PrintStatement(Variable("q"))>>))>>
   ELSE <<>>)
  \o << FnStatement("f", SubSeq(ParameterNames, 1, n),
          NoValue([i \in 1..n |-> PrintStatement(Variable(ParameterNames[i]))])),
        FnStatement("main", <<>>, NoValue(<<
          ES(Call(Variable("f"), [i \in 1..n |-> LitNumber(10 * i)])),
          PrintStatement(LitNumber(0)) >>)) >>

\* the operators whose operands do not commute, the range and the three
\* receivers of an index
OrderedOperators ==
  {"Minus", "Slash", "Percent", "Less", "LessEqual", "Greater", "GreaterEqual"}

OrderedForms == OrderedOperators \cup {"Range", "IndexArray", "IndexString", "IndexMap"}

OrderedOperands == {1, 2, 6}

\* the operands of each form: a quotient is whole, an index has one operand
\* and is inside the receiver
OrderedCases ==
  {x \in OrderedForms \X OrderedOperands \X OrderedOperands :
     /\ x[1] = "Slash" => x[2] % x[3] = 0
     /\ x[1] = "IndexString" => x[2] <= 2
     /\ x[1] \in {"IndexArray", "IndexString", "IndexMap"} => x[3] = 1}

\* fn main() { print a OP b; }      print a..b;     print [0, 10, .., 60][a];
\*             print "ab"[a - 1];   print #{ [1]: 10, [2]: 20, [6]: 60 }[a];
OrderedProgram(form, a, b) ==
  << FnStatement("main", <<>>, NoValue(<<
       PrintStatement(
         CASE form \in OrderedOperators -> Binary(LitNumber(a), form, LitNumber(b))
           [] form = "Range" -> RangeExpr(LitNumber(a), LitNumber(b))
           [] form = "IndexArray" ->
                Index(Array([i \in 1..7 |-> LitNumber(10 * (i - 1))]), LitNumber(a))
           [] form = "IndexString" -> Index(LitString("ab"), LitNumber(a - 1))
           [] form = "IndexMap" ->
                Index(Map(<< MapExpression(LitNumber(1), LitNumber(10)),
                             MapExpression(LitNumber(2), LitNumber(20)),
                             MapExpression(LitNumber(6), LitNumber(60)) >>),
                      LitNumber(a))) >>)) >>

\* the names of the functions of the nested programs
NestedNames == <<"f1", "f2", "f3", "f4", "f5">>

SiblingNames == <<"g1", "g2", "g3", "g4", "g5">>

\* fn top() { return 0; }
\* fn main() {
\*   fn f1() {
\*     if true { fn g1() { return 101; } print g1(); }
\*     fn f2() { .. fn fd() { .. return d; } .. }
\*     return f2();
\*   }
\*   print f1();
\* }
\* fn last() { return 0; }
NestedProgram(depth) ==
  LET Returning(name, e) == FnStatement(name, <<>>, NoValue(<<ES(Return(Some(e)))>>))
      Sibling(i) ==
        ES(If(LitTrue,
              NoValue(<< Returning(SiblingNames[i], LitNumber(100 + i)),
                         PrintStatement(Call(Variable(SiblingNames[i]), <<>>)) >>),
              None))
      Nest[k \in 0..depth] ==
        \* the function depth - k levels down, which holds k more
        LET i == depth - k
        IN IF k = 0
           THEN FnStatement(NestedNames[i], <<>>, NoValue(
                  << Sibling(i), ES(Return(Some(LitNumber(i)))) >>))
           ELSE FnStatement(NestedNames[i], <<>>, NoValue(
                  << Sibling(i), Nest[k - 1],
                     ES(Return(Some(Call(Variable(NestedNames[i + 1]), <<>>)))) >>))
  IN << Returning("top", LitNumber(0)),
        FnStatement("main", <<>>, NoValue(
          IF depth = 0 THEN <<PrintStatement(Call(Variable("top"), <<>>))>>
          ELSE << Nest[depth - 1], PrintStatement(Call(Variable("f1"), <<>>)) >>)),
        Returning("last", LitNumber(0)) >>

\* [fn e(p1, .., pk) { }]
\* fn g() { return 7; }
\* fn main() { for x in 0..2 { print g(); } print 9; }
WindowProgram(k) ==
  (IF k > 0 THEN <<FnStatement("e", SubSeq(ParameterNames, 1, k), NoValue(<<>>))>> ELSE <<>>)
  \o << FnStatement("g", <<>>, NoValue(<<ES(Return(Some(LitNumber(7))))>>)),
        FnStatement("main", <<>>, NoValue(<<
          ES(For("x", None, RangeExpr(LitNumber(0), LitNumber(2)),
                 NoValue(<<PrintStatement(Call(Variable("g"), <<>>))>>))),
          PrintStatement(LitNumber(9)) >>)) >>

\* the character codes the append programs add to a string
AppendCodes == {97, 99, 255, 256, 353}

\* fn main() { print "ab" + n; }
AppendProgram(n) ==
  << FnStatement("main", <<>>, NoValue(
       << PrintStatement(Binary(LitString("ab"), "Plus", LitNumber(n))) >>)) >>

\* fn f() { [let v1 = 1; let v2 = 1;] f(); }
\* fn main() { f(); }
RecurseProgram(n) ==
  << FnStatement("f", <<>>, NoValue(
       [i \in 1..n |-> LetStatement("v" \o ToString(i), Some(LitNumber(1)))]
       \o << ES(Call(Variable("f"), <<>>)) >>)),
     FnStatement("main", <<>>, NoValue(<< ES(Call(Variable("f"), <<>>)) >>)) >>

\* the places of main in which the returning programs execute `return 5`
ReturnForms ==
  {"end", "first", "for_range", "for_array", "for_map", "for_two", "nested_for",
   "while", "loop", "after_break", "binary_left", "binary_right", "array", "map",
   "call_argument", "index", "and", "or", "let", "if_value", "after_call",
   "return_nil", "not_taken", "if_then_value", "if_not_taken", "block_value",
   "loop_break", "while_continue", "break_in_binary", "continue_in_array", "loop_value"}

\* [fn g() { for x in 0..2 { if x == 1 { return 7; } } return 8; }]
\* fn main() { <a body that returns 5 from the place named by form> }
ReturnProgram(form) ==
  LET five == Return(Some(LitNumber(5)))
      Returns == NoValue(<<ES(five)>>)
      ReturnsAtOne(name) ==
        NoValue(<< ES(If(Binary(Variable(name), "EqualEqual", LitNumber(1)), Returns, None)),
                   PrintStatement(Variable(name)) >>)
      a12 == Array(<<LitNumber(10), LitNumber(20)>>)
      body ==
        CASE form = "end" -> << PrintStatement(LitNumber(1)) >>
          [] form = "first" -> << ES(five), PrintStatement(LitNumber(1)) >>
          [] form = "for_range" ->
               << ES(For("x", None, RangeExpr(LitNumber(0), LitNumber(3)), ReturnsAtOne("x"))) >>
          [] form = "for_array" ->
               << LetStatement("a", Some(a12)),
                  ES(For("x", None, Variable("a"), ReturnsAtOne("x"))) >>
          [] form = "for_map" ->
               << LetStatement("m", Some(Map(<<MapExpression(LitNumber(1), LitNumber(10))>>))),
                  ES(For("x", None, Variable("m"), ReturnsAtOne("x"))) >>
          [] form = "for_two" ->
               << LetStatement("a", Some(a12)),
                  ES(For("x", Some("v"), Variable("a"), ReturnsAtOne("x"))) >>
          [] form = "nested_for" ->
               << ES(For("y", None, RangeExpr(LitNumber(0), LitNumber(2)), NoValue(<<
                    ES(For("x", None, RangeExpr(LitNumber(0), LitNumber(3)),
                           ReturnsAtOne("x"))) >>))) >>
          [] form = "while" ->
               << LetStatement("x", Some(LitNumber(0))),
                  ES(While(Binary(Variable("x"), "Less", LitNumber(3)), NoValue(<<
                       ES(CompoundAssignment(Variable("x"), "PlusEqual", LitNumber(1))),
                       ES(If(Binary(Variable("x"), "EqualEqual", LitNumber(2)), Returns, None))
                     >>))) >>
          [] form = "loop" -> << ES(Loop(Returns)) >>
          [] form = "after_break" ->
               << ES(For("x", None, RangeExpr(LitNumber(0), LitNumber(3)), NoValue(<<
                    ES(If(Binary(Variable("x"), "EqualEqual", LitNumber(1)),
                          NoValue(<<ES(Break)>>), None)) >>))),
                  ES(five) >>
          [] form = "binary_left" -> << PrintStatement(Binary(five, "Plus", LitNumber(1))) >>
          [] form = "binary_right" -> << PrintStatement(Binary(LitNumber(1), "Plus", five)) >>
          [] form = "array" -> << ES(Array(<<LitNumber(7), five>>)) >>
          [] form = "map" -> << ES(Map(<<MapExpression(LitNumber(1), five)>>)) >>
          [] form = "call_argument" ->
               << ES(Call(Variable("g"), <<five>>)) >>
          [] form = "index" ->
               << LetStatement("a", Some(a12)), PrintStatement(Index(Variable("a"), five)) >>
          [] form = "and" -> << PrintStatement(Binary(LitTrue, "AmpersandAmpersand", five)) >>
          [] form = "or" -> << PrintStatement(Binary(LitFalse, "PipePipe", five)) >>
          [] form = "let" -> << LetStatement("v", Some(five)) >>
          [] form = "if_value" ->
               << PrintStatement(If(LitTrue, Block(<<>>, Some(five)),
                                    Some(Block(<<>>, Some(LitNumber(1)))))) >>
          [] form = "return_nil" -> << PrintStatement(LitNumber(1)), ES(Return(None)) >>
          [] form = "not_taken" ->
               << ES(If(LitFalse, Returns, None)), PrintStatement(LitNumber(1)) >>
          [] form = "if_then_value" ->
               << ES(If(LitTrue, Block(<<>>, Some(LitNumber(5))), None)) >>
          [] form = "if_not_taken" ->
               << ES(If(LitFalse, Block(<<>>, Some(LitNumber(5))), None)) >>
          [] form = "block_value" ->
               << ES(Block(<<ES(LitNumber(1))>>, Some(LitNumber(2)))) >>
          [] form = "loop_break" ->
               << ES(Loop(NoValue(<<ES(Break)>>))), PrintStatement(LitNumber(1)) >>
          [] form = "while_continue" ->
               << LetStatement("x", Some(LitNumber(0))),
                  ES(While(Binary(Variable("x"), "Less", LitNumber(2)), NoValue(<<
                       ES(CompoundAssignment(Variable("x"), "PlusEqual", LitNumber(1))),
                       ES(Continue) >>))) >>
          [] form = "break_in_binary" ->
               << ES(Loop(NoValue(<<PrintStatement(Binary(Break, "Plus", LitNumber(1)))>>))) >>
          [] form = "continue_in_array" ->
               << ES(For("x", None, RangeExpr(LitNumber(0), LitNumber(2)), NoValue(<<
                    ES(Array(<<LitNumber(7), Continue>>)) >>))) >>
          [] form = "loop_value" ->
               << LetStatement("r", Some(For("x", None, RangeExpr(LitNumber(0), LitNumber(2)),
                                             NoValue(<<>>)))),
                  PrintStatement(Variable("r")) >>
          [] form = "after_call" ->
               << PrintStatement(Call(Variable("g"), <<>>)),
                  ES(For("x", None, RangeExpr(LitNumber(0), LitNumber(2)), NoValue(<<
                       PrintStatement(Call(Variable("g"), <<>>)) >>))),
                  ES(five) >>
      g == FnStatement("g", <<>>, NoValue(<<
             ES(For("x", None, RangeExpr(LitNumber(0), LitNumber(2)), NoValue(<<
                  ES(If(Binary(Variable("x"), "EqualEqual", LitNumber(1)),
                        NoValue(<<ES(Return(Some(LitNumber(7))))>>), None)) >>))),
             ES(Return(Some(LitNumber(8)))) >>))
  IN (IF form \in {"call_argument", "after_call"} THEN <<g>> ELSE <<>>)
     \o << FnStatement("main", <<>>, NoValue(body)) >>

\* the i-th value the array programs store
Element(i) == 10 * i

\* what the body of the array loops does to the array
ArrayChanges == {"none", "push", "assign"}

\* fn main() { let a = [e1, .., en];
\*             for i[, v] in a { print i; [print v;] [a:push(5);] [a[i + 1] = 99;] }
\*             print 9; }
ForArrayProgram(n, two, change) ==
  LET a == Variable("a")
  IN << FnStatement("main", <<>>, NoValue(<<
          LetStatement("a", Some(Array([i \in 1..n |-> LitNumber(Element(i))]))),
          ES(For("i", IF two THEN Some("v") ELSE None, a, NoValue(
               << PrintStatement(Variable("i")) >>
               \o (IF two THEN <<PrintStatement(Variable("v"))>> ELSE <<>>)
               \o (CASE change = "push" -> <<ES(BuiltinCall(a, "push", <<LitNumber(5)>>))>>
                     [] change = "assign" ->
                          <<ES(Assignment(Index(a, Binary(Variable("i"), "Plus", LitNumber(1))),
                                          LitNumber(99)))>>
                     [] OTHER -> <<>>)))),
          PrintStatement(LitNumber(9)) >>)) >>

\* fn main() { let a = [e1, .., en]; let b = [e1, .., en];
\*             print a[k]; print a:len();
\*             b[k] = 5; print b[k]; print b:len(); }
IndexProgram(n, k) ==
  LET a == Variable("a")
      b == Variable("b")
      Literal == Array([i \in 1..n |-> LitNumber(Element(i))])
  IN << FnStatement("main", <<>>, NoValue(
          << LetStatement("a", Some(Literal)),
             LetStatement("b", Some(Literal)),
             PrintStatement(Index(a, LitNumber(k))),
             PrintStatement(BuiltinCall(a, "len", <<>>)),
             ES(Assignment(Index(b, LitNumber(k)), LitNumber(5))),
             PrintStatement(Index(b, LitNumber(k))),
             PrintStatement(BuiltinCall(b, "len", <<>>)) >>)) >>

\* fn main() { let a = [e1, .., ek]; a:push(e(k+1)); .. a:push(e(k+n));
\*             let b = []; b:push(e1); .. b:push(e(k+n));
\*             print a:len(); print b:len();
\*             print a[0]; print b[0]; .. print a[k+n-1]; print b[k+n-1]; }
ArrayProgram(k, n) ==
  LET a == Variable("a")
      b == Variable("b")
      PushTo(array, count, from) ==
        [i \in 1..count |-> ES(BuiltinCall(array, "push", <<LitNumber(Element(from + i))>>))]
      Both(i) == << PrintStatement(Index(a, LitNumber(i - 1))),
                    PrintStatement(Index(b, LitNumber(i - 1))) >>
      Prints[i \in 0..k + n] == IF i = 0 THEN <<>> ELSE Prints[i - 1] \o Both(i)
  IN << FnStatement("main", <<>>, NoValue(
          << LetStatement("a", Some(Array([i \in 1..k |-> LitNumber(Element(i))]))) >>
          \o PushTo(a, n, k)
          \o << LetStatement("b", Some(Array(<<>>))) >>
          \o PushTo(b, k + n, 0)
          \o << PrintStatement(BuiltinCall(a, "len", <<>>)),
                PrintStatement(BuiltinCall(b, "len", <<>>)) >>
          \o Prints[k + n])) >>

\* the operands of the short-circuit programs: nil, false, true, 0
Operand(i) == <<LitNil, LitFalse, LitTrue, LitNumber(0)>>[i]

Operands == 1..4

\* fn t(x) { print x; x }
\* fn main() { print ((t(<a>) && t(<b>)) || t(<c>)) == 9;
\*             print (t(<a>) || (t(<b>) && t(<c>))) == 8; }
ShortCircuitProgram(a, b, c) ==
  LET t(i) == Call(Variable("t"), <<Operand(i)>>)
  IN << FnStatement("t", <<"x">>, Block(<<PrintStatement(Variable("x"))>>, Some(Variable("x")))),
        FnStatement("main", <<>>, NoValue(<<
          PrintStatement(Binary(
            Grouping(Binary(Grouping(Binary(t(a), "AmpersandAmpersand", t(b))),
                            "PipePipe", t(c))),
            "EqualEqual", LitNumber(9))),
          PrintStatement(Binary(
            Grouping(Binary(t(a), "PipePipe",
                            Grouping(Binary(t(b), "AmpersandAmpersand", t(c))))),
            "EqualEqual", LitNumber(8))) >>)) >>

\* fn main() { let n = 0; for i in 0..<r> { if i == <b> { break; } n += 1; } print n; }
ForBreakProgram(r, b) ==
  << FnStatement("main", <<>>, NoValue(<<
       LetStatement("n", Some(LitNumber(0))),
       ES(For("i", None, RangeExpr(LitNumber(0), LitNumber(r)), NoValue(<<
            ES(If(Binary(Variable("i"), "EqualEqual", LitNumber(b)),
                  NoValue(<<ES(Break)>>), None)),
            ES(CompoundAssignment(Variable("n"), "PlusEqual", LitNumber(1))) >>))),
       PrintStatement(Variable("n")) >>)) >>

\* fn main() { let n = 0; for x in <lo>..<hi> { print x; n += 1; } print n; }
\* and, brk being Some(k), with `if x == <k> { break; }` before `print x;`
ForRangeProgram(lo, hi, brk) ==
  << FnStatement("main", <<>>, NoValue(<<
       LetStatement("n", Some(LitNumber(0))),
       ES(For("x", None, RangeExpr(LitNumber(lo), LitNumber(hi)), NoValue(
            (IF IsSome(brk)
             THEN <<ES(If(Binary(Variable("x"), "EqualEqual", LitNumber(Unwrap(brk))),
                          NoValue(<<ES(Break)>>), None))>>
             ELSE <<>>)
            \o << PrintStatement(Variable("x")),
                  ES(CompoundAssignment(Variable("n"), "PlusEqual", LitNumber(1))) >>))),
       PrintStatement(Variable("n")) >>)) >>

\* fn main() {
\*   let m = #{ [1]: 10, ..., [<n>]: <10 n> };
\*   for k, v in m { print k; print v; m[k + 10] = 7; m[2] = 99; }
\*   print 9; }
\* with `m[k + 10] = 7;` only when ins, and `m[2] = 99;` only when upd
ForMapProgram(n, ins, upd) ==
  LET m == Variable("m")
  IN << FnStatement("main", <<>>, NoValue(<<
          LetStatement("m", Some(Map([i \in 1..n |->
                                        MapExpression(LitNumber(i), LitNumber(10 * i))]))),
          ES(For("k", Some("v"), m, NoValue(
               << PrintStatement(Variable("k")), PrintStatement(Variable("v")) >>
               \o (IF ins
                   THEN <<ES(Assignment(Index(m, Binary(Variable("k"), "Plus", LitNumber(10))),
                                        LitNumber(7)))>>
                   ELSE <<>>)
               \o (IF upd
                   THEN <<ES(Assignment(Index(m, LitNumber(2)), LitNumber(99)))>>
                   ELSE <<>>)))),
          PrintStatement(LitNumber(9)) >>)) >>

\* fn g() { for i in 0..<r> { if i == 9 { return 0; } if i == <b> { break; } } 7 }
\* fn main() { print g() + 5; }
ForReturnBreakProgram(r, b) ==
  << FnStatement("g", <<>>, Block(<<
       ES(For("i", None, RangeExpr(LitNumber(0), LitNumber(r)), NoValue(<<
            ES(If(Binary(Variable("i"), "EqualEqual", LitNumber(9)),
                  NoValue(<<ES(Return(Some(LitNumber(0))))>>), None)),
            ES(If(Binary(Variable("i"), "EqualEqual", LitNumber(b)),
                  NoValue(<<ES(Break)>>), None)) >>))) >>, Some(LitNumber(7)))),
     FnStatement("main", <<>>, NoValue(<<
       PrintStatement(Binary(Call(Variable("g"), <<>>), "Plus", LitNumber(5))) >>)) >>

\* fn f(a) { }  fn main() { print a; }
OtherParameterProgram ==
  << FnStatement("f", <<"a">>, NoValue(<<>>)),
     FnStatement("main", <<>>, NoValue(<<PrintStatement(Variable("a"))>>)) >>

\* fn f() { let a = 1; }  fn main() { print a; }
OtherLocalProgram ==
  << FnStatement("f", <<>>, NoValue(<<LetStatement("a", Some(LitNumber(1)))>>)),
     FnStatement("main", <<>>, NoValue(<<PrintStatement(Variable("a"))>>)) >>

\* fn main() { break; }
BreakOutsideProgram == << FnStatement("main", <<>>, NoValue(<<ES(Break)>>)) >>

\* fn main() { continue; }
ContinueOutsideProgram == << FnStatement("main", <<>>, NoValue(<<ES(Continue)>>)) >>

\* fn f(a) { }  fn main() { let x = 1; print x; }
SlotProgram ==
  << FnStatement("f", <<"a">>, NoValue(<<>>)),
     FnStatement("main", <<>>, NoValue(<<
       LetStatement("x", Some(LitNumber(1))), PrintStatement(Variable("x")) >>)) >>

\* fn f(n) { (f(n) + 1) + 1 }  fn main() { print f(0); }
\* (the right operand of a binary operator is evaluated first)
DeepProgram ==
  << FnStatement("f", <<"n">>, Block(<<>>, Some(
       Binary(Grouping(Binary(Call(Variable("f"), <<Variable("n")>>), "Plus", LitNumber(1))),
              "Plus", LitNumber(1))))),
     FnStatement("main", <<>>, NoValue(<<
       PrintStatement(Call(Variable("f"), <<LitNumber(0)>>)) >>)) >>

\* fn main() { print 0; print 1; ... print <n - 1>; }
ConstantsProgram(n) ==
  << FnStatement("main", <<>>, NoValue([i \in 1..n |-> PrintStatement(LitNumber(i - 1))])) >>

\* fn main() { let a = true; let v2; ... let v<n-1>; let b = false; print a; }
\* (n variables: a has slot 0, b needs slot n - 1)
LocalsProgram(n) ==
  << FnStatement("main", <<>>, NoValue(
       <<LetStatement("a", Some(LitTrue))>>
       \o [i \in 1..(n - 2) |-> LetStatement("v" \o ToString(i + 1), None)]
       \o <<LetStatement("b", Some(LitFalse)), PrintStatement(Variable("a"))>>)) >>

\* the non-finite numbers a program can compute: 1 / 0, 0 / 0
NonFiniteKinds == 1..2

NonFiniteExpr(kind) ==
  Binary(LitNumber(IF kind = 1 THEN 1 ELSE 0), "Slash", LitNumber(0))

\* the uses of a map key: in a map literal, in an assignment, in a read
KeyUses == 1..3

\* fn main() {
\*   let m = #{ [1]: 2 };                 (use 1:  let m = #{ [1]: 2, [<key>]: 3 };)
\*   m[<key>] = 3;                        (use 2, on line 2)
\*   print m[<key>];                      (use 3, on line 2)
\*   print 4; }
\* with <key> a number when finite, else 1 / 0 or 0 / 0
MapKeyProgram(use, key) ==
  LET entry == MapExpression(LitNumber(1), LitNumber(2))
      bad == MapExpression(key, LitNumber(3))
      m == Variable("m")
  IN << FnStatement("main", <<>>, NoValue(
          << LetStatement("m", Some(AtLine(Map(IF use = 1 THEN <<entry, bad>> ELSE <<entry>>),
                                           2))) >>
          \o (CASE use = 1 -> <<>>
                [] use = 2 -> <<AtLine(ES(AtLine(Assignment(AtLine(Index(m, key), 2),
                                                            LitNumber(3)), 2)), 2)>>
                [] use = 3 -> <<AtLine(PrintStatement(AtLine(Index(m, key), 2)), 2)>>)
          \o << PrintStatement(LitNumber(4)) >>)) >>

\* the files the interpreter is run on
Sources ==
       {[name |-> "fib", args |-> <<n>>] : n \in (0..MaxFibArg) \cup {10}}
  \cup {[name |-> "return_twice", args |-> <<n>>] : n \in 0..MaxArg}
  \cup {[name |-> "return_once", args |-> <<n>>] : n \in 0..MaxArg}
  \cup {[name |-> "short_circuit", args |-> <<a, b, c>>] : a \in Operands, b \in Operands,
                                                          c \in Operands}
  \cup {[name |-> "for_break", args |-> <<r, b>>] : r \in 0..MaxArg, b \in 0..MaxArg}
  \cup {[name |-> "for_return_break", args |-> <<r, b>>] : r \in 0..MaxArg, b \in 0..MaxArg}
  \cup {[name |-> n, args |-> <<>>] :
          n \in {"other_parameter", "other_local", "break_outside", "continue_outside",
                 "slot", "deep", "heap"}}
  \cup {[name |-> "constants", args |-> <<n>>] : n \in {U8_RANGE - 1, U8_RANGE, U8_RANGE + 1}}
  \cup {[name |-> "locals", args |-> <<n>>] : n \in {U8_RANGE - 1, U8_RANGE, U8_RANGE + 1}}
  \cup {[name |-> "map_key", args |-> <<use, kind>>] : use \in KeyUses,
                                                        kind \in {0} \cup NonFiniteKinds}
  \cup {[name |-> "for_range", args |-> <<lo, hi, brk>>] :
          lo \in 0..MaxArg, hi \in 0..MaxArg + 2,
          brk \in {None} \cup {Some(k) : k \in 0..MaxArg}}
  \cup {[name |-> "recursion", args |-> <<n>>] : n \in 0..MaxArg}
  \cup {[name |-> "functions", args |-> <<kind>>] : kind \in FunctionKinds}
  \cup {[name |-> "builtin", args |-> <<receiver, name>>] : receiver \in Receivers,
                                                            name \in BuiltinNames}
  \cup {[name |-> "for_map", args |-> <<n, ins, upd>>] :
          n \in 0..MaxArg, ins \in BOOLEAN, upd \in BOOLEAN}
  \cup {[name |-> "array", args |-> <<k, n>>] : k \in 0..MaxArg, n \in 0..MaxArg}
  \cup {[name |-> "loop_jump", args |-> <<kind, jump, earlier>>] :
          kind \in LoopKinds, jump \in LoopJumps, earlier \in EarlierStatements}
  \cup {[name |-> "parameters", args |-> <<n, earlier>>] :
          n \in 0..MaxArg, earlier \in BOOLEAN}
  \cup {[name |-> "ordered", args |-> <<form, a, b>>] :
          <<form, a, b>> \in OrderedCases}
  \cup {[name |-> "nested", args |-> <<depth>>] : depth \in 0..MaxArg}
  \cup {[name |-> "window", args |-> <<k>>] : k \in 0..MaxArg}
  \cup {[name |-> "for_array", args |-> <<n, two, change>>] :
         n \in 0..MaxArg, two \in BOOLEAN, change \in ArrayChanges}
  \cup {[name |-> "returning", args |-> <<form>>] : form \in ReturnForms}
  \cup {[name |-> "recurse", args |-> <<n>>] : n \in {0, 2}}
  \cup {[name |-> "append", args |-> <<n>>] : n \in AppendCodes}
  \cup {[name |-> "index", args |-> <<n, k>>] : n \in 0..MaxArg, k \in 0..MaxArg + 1}
  \cup {[name |-> "global_let", args |-> <<kind, uses>>] :
          kind \in {"none"} \cup LiteralInitializers \cup OtherInitializers,
          uses \in BOOLEAN}

\* the lines typed at the REPL prompt
Lines == 1..4

\* 1:  print 1;
\* 2:  let a = [1]; print a[0];
\* 3:  fn g(x) { let y = 2; -nil } print g(2) + 1;
\* 4:  print zz;
LineBody(i) ==
  CASE i = 1 -> NoValue(<<PrintStatement(LitNumber(1))>>)
    [] i = 2 -> NoValue(<<LetStatement("a", Some(Array(<<LitNumber(1)>>))),
                          PrintStatement(Index(Variable("a"), LitNumber(0)))>>)
    [] i = 3 -> NoValue(<<FnStatement("g", <<"x">>,
                            Block(<<LetStatement("y", Some(LitNumber(2)))>>,
                                  Some(Unary("Minus", LitNil)))),
                          PrintStatement(Binary(Call(Variable("g"), <<LitNumber(2)>>), "Plus",
                                                LitNumber(1)))>>)
    [] i = 4 -> NoValue(<<PrintStatement(Variable("zz"))>>)

\* lib.rs, repl: the line is wrapped as the body of main
ReplProgram(i) == << FnStatement("main", <<>>, LineBody(i)) >>

\* the parser's result for a source text
ProgramOf(src) ==
  CASE src.name = "fib" -> FibProgram(src.args[1])
    [] src.name = "return_twice" -> ReturnTwiceProgram(src.args[1])
    [] src.name = "return_once" -> ReturnOnceProgram(src.args[1])
    [] src.name = "short_circuit" -> ShortCircuitProgram(src.args[1], src.args[2], src.args[3])
    [] src.name = "for_break" -> ForBreakProgram(src.args[1], src.args[2])
    [] src.name = "builtin" -> BuiltinProgram(src.args[1], src.args[2])
    [] src.name = "functions" -> FunctionsProgram(src.args[1])
    [] src.name = "recursion" -> RecursionProgram(src.args[1])
    [] src.name = "for_map" -> ForMapProgram(src.args[1], src.args[2], src.args[3])
    [] src.name = "for_range" -> ForRangeProgram(src.args[1], src.args[2], src.args[3])
    [] src.name = "for_return_break" -> ForReturnBreakProgram(src.args[1], src.args[2])
    [] src.name = "other_parameter" -> OtherParameterProgram
    [] src.name = "other_local" -> OtherLocalProgram
    [] src.name = "break_outside" -> BreakOutsideProgram
    [] src.name = "continue_outside" -> ContinueOutsideProgram
    [] src.name = "slot" -> SlotProgram
    [] src.name = "locals" -> LocalsProgram(src.args[1])
    [] src.name = "map_key" ->
         MapKeyProgram(src.args[1], IF src.args[2] = 0 THEN LitNumber(5)
                                    ELSE NonFiniteExpr(src.args[2]))
    [] src.name = "deep" -> DeepProgram
    [] src.name = "heap" -> HeapProgram
    [] src.name = "array" -> ArrayProgram(src.args[1], src.args[2])
    [] src.name = "nested" -> NestedProgram(src.args[1])
    [] src.name = "window" -> WindowProgram(src.args[1])
    [] src.name = "for_array" -> ForArrayProgram(src.args[1], src.args[2], src.args[3])
    [] src.name = "returning" -> ReturnProgram(src.args[1])
    [] src.name = "recurse" -> RecurseProgram(src.args[1])
    [] src.name = "append" -> AppendProgram(src.args[1])
    [] src.name = "index" -> IndexProgram(src.args[1], src.args[2])
    [] src.name = "ordered" -> OrderedProgram(src.args[1], src.args[2], src.args[3])
    [] src.name = "parameters" -> ParametersProgram(src.args[1], src.args[2])
    [] src.name = "loop_jump" -> LoopJumpProgram(src.args[1], src.args[2], src.args[3])
    [] src.name = "global_let" -> GlobalLetProgram(src.args[1], src.args[2])
    [] src.name = "constants" -> ConstantsProgram(src.args[1])
    [] src.name = "line" -> ReplProgram(src.args[1])

(***************************************************************************)
(* The state machine.                                                      *)
(*   vm     : the VM object                                                *)
(*   source : the text handed to the last interpret call                   *)
(*   ghost  : what the compiler recorded about the chunk being run         *)
(*   acts   : one record per function activation in progress: the address  *)
(*            of its FunctionEntry, the stack depth when it was reached    *)
(*            and the number of call frames below it                       *)
(*   marks  : one record per `&&`, `||` or `for` in progress: the frame,   *)
(*            the site, the stack depth when it was reached, and for `&&`  *)
(*            and `||` the left operand's value and whether the right      *)
(*            operand is to be skipped                                     *)
(*   calls  : the number of interpret calls made on the VM                 *)
(*   scanner: the Scanner object, see scanner.rs above                     *)
(*   clock  : the parity of the number of turns VM::run's loop has taken   *)
(*            in the current interpret call                                *)
(*   frames : open, one record per Call whose Return has not run: the      *)
(*            address after the Call's operand, and locals_base,           *)
(*            locals_top and the number of call frames before the Call;    *)
(*            closed, the record of the Call whose Return ran last turn    *)
(*   builder: a Compiler whose chunk is being written, one chunk           *)
(*            operation at a time                                          *)
(***************************************************************************)
VARIABLES vm, source, ghost, acts, marks, calls, scanner, clock, frames, builder, compared

vars == <<vm, source, ghost, acts, marks, calls, scanner, clock, frames, builder, compared>>

\* Ordering::reverse
Reverse(o) == CASE o = "Less" -> "Greater" [] o = "Greater" -> "Less" [] OTHER -> "Equal"

\* usize::cmp, bool order and f64::partial_cmp on the finite values a
\* SanitizedFloat holds (unwrap never fails on them)
NumberCmp(x, y) == IF x < y THEN "Less" ELSE IF x > y THEN "Greater" ELSE "Equal"

\* String::cmp: the order of the byte sequences
StringCmp(s, t) ==
  LET x == StringBytes(s)
      y == StringBytes(t)
      differ == {i \in 1..(IF Len(x) < Len(y) THEN Len(x) ELSE Len(y)) : x[i] # y[i]}
  IN IF differ = {} THEN NumberCmp(Len(x), Len(y))
     ELSE LET i == CHOOSE j \in differ : \A k \in differ : j <= k
          IN NumberCmp(x[i], y[i])

\* the order of the variants in enum HashableValue
TagRank(h) ==
  CASE h = "Nil" -> 0
    [] h = "Number" -> 1
    [] h = "Boolean" -> 2
    [] h = "String" -> 3
    [] h = "ReferenceId" -> 4
    [] h = "Range" -> 5
    [] h = "Callable" -> 6

\* impl Ord for HashableValue, two Ranges
RangeCmp(a, b) == NumberCmp(to_f64(a.l), to_f64(b.l))

\* impl Ord for HashableValue: cmp
cmp(a, b) ==
  CASE a.h = "Nil" -> IF b.h = "Nil" THEN "Equal" ELSE "Less"
    [] a.h = "Number" ->
         IF b.h = "Nil" THEN "Greater"
         ELSE IF b.h = "Number" THEN NumberCmp(to_f64(a.f), to_f64(b.f))
         ELSE "Less"
    [] a.h = "Boolean" ->
         IF b.h \in {"Nil", "Number"} THEN "Greater"
         ELSE IF b.h = "Boolean"
              THEN (IF a.b = b.b THEN "Equal" ELSE IF a.b /\ ~b.b THEN "Greater" ELSE "Less")
         ELSE "Less"
    [] a.h = "String" ->
         IF b.h = "String" THEN StringCmp(a.s, b.s)
         ELSE IF b.h \in {"ReferenceId", "Range", "Callable"} THEN "Less"
         ELSE "Greater"
    [] a.h = "ReferenceId" ->
         IF b.h = "ReferenceId" THEN NumberCmp(a.id, b.id)
         ELSE IF b.h \in {"Range", "Callable"} THEN "Less"
         ELSE "Greater"
    [] a.h = "Range" ->
         IF b.h = "Range" THEN RangeCmp(a, b)
         ELSE IF b.h = "Callable" THEN "Less"
         ELSE "Greater"
    [] a.h = "Callable" ->
         IF b.h = "Callable" THEN NumberCmp(a.c, b.c) ELSE "Greater"

\* SanitizedFloat::try_from(-0.0): integer_decode keeps the sign of a zero
NegativeZero == [mantissa |-> 0, exponent |-> 0, sign |-> -1]

\* the numbers, strings, ids and range bounds of the values compared
ComparedNumbers == {-1, 0, 1}

ComparedStrings == {"", "a", "ab", "b"}

ComparedIds == {0, 1}

\* the HashableValues cmp is applied to
HashableValues ==
  {[h |-> "Nil"]}
  \cup {[h |-> "Number", f |-> SanitizedFloat(n)] : n \in ComparedNumbers}
  \cup {[h |-> "Number", f |-> NegativeZero]}
  \cup {[h |-> "Boolean", b |-> x] : x \in BOOLEAN}
  \cup {[h |-> "String", s |-> x] : x \in ComparedStrings}
  \cup {[h |-> "ReferenceId", id |-> x] : x \in ComparedIds}
  \cup {[h |-> "Range", l |-> SanitizedFloat(x), r |-> SanitizedFloat(y)] :
          x \in ComparedIds, y \in ComparedIds}
  \cup {[h |-> "Callable", c |-> x] : x \in ComparedIds}

\* nothing has been compared yet
NotCompared ==
  [done |-> FALSE, a |-> [h |-> "Nil"], b |-> [h |-> "Nil"], c |-> [h |-> "Nil"],
   ab |-> "Equal", ba |-> "Equal", bc |-> "Equal", ac |-> "Equal"]

NoFrames == [open |-> <<>>, closed |-> None]

NoSource == [name |-> "", args |-> <<>>]

NoGhost == [fn_arity |-> EmptyMap, sites |-> <<>>, emitted |-> <<>>, deferred |-> <<>>]

Init ==
  /\ vm = VMNew
  /\ source = NoSource
  /\ ghost = NoGhost
  /\ acts = <<>>
  /\ marks = <<>>
  /\ calls = 0
  /\ scanner = NoScanner
  /\ clock = 0
  /\ frames = NoFrames
  /\ builder = CompilerNew(FALSE)
  /\ compared = NotCompared

\* what the compiler recorded for a program, nothing if it was rejected
GhostOf(compiler) ==
  IF Failed(compiler) THEN NoGhost
  ELSE [fn_arity |-> compiler.fn_arity, sites |-> compiler.sites,
        emitted |-> compiler.emitted, deferred |-> compiler.deferred]

\* the orders in which a HashMap of n entries may hand out its keys
Orders(n) == {f \in [1..n -> 1..n] : \A i, j \in 1..n : f[i] = f[j] => i = j}

\* the instruction about to be executed
CurrentInstruction(m) ==
  IF Running(m) /\ m.ip >= 0 /\ m.ip < Len(m.chunk.code) THEN ByteAt(m.chunk.code, m.ip) ELSE 0

\* the number of entries of the map a ForLoop is about to start on, else 0
MapSize(m) ==
  IF CurrentInstruction(m) = OpForLoop /\ Len(m.stack) >= 1 /\ RefersTo(m, Top(m), "Map")
  THEN Len(m.heap[Top(m).v + 1].entries)
  ELSE 0

Frame(m) == Len(m.return_stack)

\* the address at which a site is entered, and the one at which it is left
SiteEntry(site) == IF site.k = "for" THEN site.start ELSE site.dup

SiteExit(site) == IF site.k = "for" THEN site.exit ELSE site.end

SitesAt(m) == {i \in 1..Len(ghost.sites) : SiteEntry(ghost.sites[i]) = m.ip}

NextActs ==
  CASE CurrentInstruction(vm) = OpFunctionEntry ->
         Append(SelectSeq(acts, LAMBDA a : a.frame < Frame(vm)),
                [entry |-> vm.ip, depth |-> Len(vm.stack), frame |-> Frame(vm)])
    [] CurrentInstruction(vm) = OpReturn /\ acts # <<>> -> Front(acts)
    [] OTHER -> acts

NextMarks ==
  LET kept == SelectSeq(marks, LAMBDA r :
                ~(/\ r.frame = Frame(vm)
                  /\ \/ SiteExit(ghost.sites[r.site]) = vm.ip
                     \/ CurrentInstruction(vm) = OpReturn
                     \/ r.site \in SitesAt(vm)))
  IN IF SitesAt(vm) = {} THEN kept
     ELSE LET i == CHOOSE i \in SitesAt(vm) : TRUE
              site == ghost.sites[i]
              value == IF site.k = "for" \/ Len(vm.stack) = 0 THEN Nil ELSE Top(vm)
          IN Append(kept,
               [frame |-> Frame(vm), site |-> i, depth |-> Len(vm.stack), val |-> value,
                skip |-> CASE site.k = "and" -> is_falsey(value)
                           [] site.k = "or" -> is_truey(value)
                           [] OTHER -> FALSE])

NextFrames ==
  CASE CurrentInstruction(vm) = OpCall ->
         [open |-> Append(frames.open,
                          [return_address |-> vm.ip + 2, locals_base |-> vm.locals_base,
                           locals_top |-> vm.locals_top, depth |-> Frame(vm)]),
          closed |-> None]
    [] CurrentInstruction(vm) = OpReturn /\ frames.open # <<>> ->
         [open |-> Front(frames.open), closed |-> Some(Last(frames.open))]
    [] OTHER -> [frames EXCEPT !.closed = None]

\* run_file: a new VM interprets the text of a file
RunFile ==
  /\ vm.status = "new"
  /\ \E src \in Sources :
       /\ source' = src
       /\ \E overflow_checks \in BOOLEAN : \E compiler \in {Compile(ProgramOf(src), overflow_checks)} :
            /\ vm' = Interpret(vm, compiler)
            /\ ghost' = GhostOf(compiler)
  /\ acts' = <<>>
  /\ marks' = <<>>
  /\ calls' = calls + 1
  /\ clock' = 0
  /\ frames' = NoFrames
  /\ UNCHANGED <<scanner, builder, compared>>

\* repl: the VM that ran the previous lines interprets the next one
ReplLine ==
  /\ vm.status \in {"new", "ok", "runtime_error", "compile_error"}
  /\ calls < MaxLines
  /\ \E i \in Lines :
       /\ source' = [name |-> "line", args |-> <<i>>]
       /\ \E overflow_checks \in BOOLEAN : \E compiler \in {Compile(ReplProgram(i), overflow_checks)} :
            /\ vm' = Interpret(vm, compiler)
            /\ ghost' = GhostOf(compiler)
  /\ acts' = <<>>
  /\ marks' = <<>>
  /\ calls' = calls + 1
  /\ clock' = 0
  /\ frames' = NoFrames
  /\ UNCHANGED <<scanner, builder, compared>>

\* VM::run: one turn of the loop
Run ==
  /\ Running(vm)
  /\ clock' = 1 - clock
  /\ frames' = NextFrames
  /\ \E order \in Orders(MapSize(vm)) :
       \E float_cast \in (IF CurrentInstruction(vm) = OpAdd THEN FloatCasts ELSE {"saturating"}) :
         vm' = Step(vm, order, float_cast)
  /\ acts' = NextActs
  /\ marks' = NextMarks
  /\ UNCHANGED <<source, ghost, calls, scanner, builder, compared>>

Next == RunFile \/ Run

Spec == Init /\ [][Next]_vars

NextRepl == ReplLine \/ Run

SpecRepl == Init /\ [][NextRepl]_vars

\* the VM loop keeps running until it returns: the interpreter is
\* single-threaded code that nothing interrupts
SpecRun == Init /\ [][Next]_vars /\ WF_clock(Run)

\* the instructions that take a 16-bit jump operand
JumpKinds == {OpJump, OpJumpIfFalse, OpJumpIfTrue, OpForLoop}

\* the addresses of the operands patched: near the start of the code, further
\* on, and as far on as a backward jump reaches
PatchSites == {2, 50, I16_RANGE \div 2 + 2}

\* the destinations: before and after the sites, and as far as a forward jump
\* reaches from each
Destinations ==
  {0, 1, 4, 30, 52, 54, 100, I16_RANGE \div 2 + 3, I16_RANGE \div 2 + 4}
    \cup {site + 2 + (I16_RANGE \div 2 - 1) : site \in PatchSites}

\* the address of the instruction whose jump operand is at site
InstructionAt(kind, site) == IF kind = OpForLoop THEN site - 2 ELSE site - 1

\* destination can be encoded from site, and is not inside the instruction
Encodable(kind, site, destination) ==
  /\ destination - (site + 2) >= -(I16_RANGE \div 2)
  /\ destination - (site + 2) < I16_RANGE \div 2
  /\ destination < InstructionAt(kind, site) \/ destination > site + 1

\* the value on which the instruction jumps
JumpsOn(kind) ==
  CASE kind = OpJump -> <<>>
    [] kind = OpJumpIfFalse -> <<Boolean(FALSE)>>
    [] kind = OpJumpIfTrue -> <<Boolean(TRUE)>>
    [] kind = OpForLoop -> <<Range(1, 1)>>

\* a chunk of Return instructions up to site + 1, with the jump instruction
\* of the kind before site, its operand patched by insert_jump_address
PatchedChunk(kind, site, destination) ==
  LET at == InstructionAt(kind, site)
      code == [i \in 1..site + 2 |-> CASE i = at + 1 -> kind
                                        [] kind = OpForLoop /\ i = at + 2 -> 0
                                        [] OTHER -> OpReturn]
      c == [CompilerNew(FALSE) EXCEPT !.chunk.code = code,
                                      !.chunk.lines = [i \in 1..site + 2 |-> 1]]
  IN InsertJumpAddress(c, site, destination).chunk

\* insert_jump_address patches a jump, and the VM is about to execute it
PatchJump ==
  /\ vm.status = "new"
  /\ \E kind \in JumpKinds, site \in PatchSites, destination \in Destinations :
       /\ Encodable(kind, site, destination)
       /\ source' = [name |-> "jump", args |-> <<kind, site, destination>>]
       /\ vm' = [VMNew EXCEPT !.chunk = PatchedChunk(kind, site, destination),
                              !.ip = InstructionAt(kind, site),
                              !.stack = JumpsOn(kind),
                              !.status = "running"]
  /\ ghost' = NoGhost
  /\ acts' = <<>>
  /\ marks' = <<>>
  /\ clock' = 0
  /\ frames' = NoFrames
  /\ UNCHANGED <<calls, scanner, builder, compared>>

NextJump == PatchJump \/ Run

SpecJump == Init /\ [][NextJump]_vars

\* the greatest length of the code the chunk operations build
MaxCodeLen == 5

\* the bytes and the lines they write
CodeBytes == {0, OpJump}

CodeLines == 1..2

\* compile_fn_statement's `self.chunk.code[locals_addr] = self.max_local`
WriteLocalsCount(c, locals_addr, max_local) ==
  [c EXCEPT !.chunk.code = SetByte(@, locals_addr, max_local)]

\* Chunk::write_chunk
ChunkWrite ==
  /\ CodeLen(builder) < MaxCodeLen
  /\ \E byte \in CodeBytes, line \in CodeLines : builder' = WriteChunk(builder, byte, line)
  /\ UNCHANGED <<vm, source, ghost, acts, marks, calls, clock, frames, scanner, compared>>

\* Chunk::register_function and Chunk::start_function
ChunkStartFunction ==
  /\ CodeLen(builder) + 2 <= MaxCodeLen
  /\ \E name \in {"main", "f"}, line \in CodeLines :
       builder' = StartFunction(RegisterFunction(builder, name), name, line)
  /\ UNCHANGED <<vm, source, ghost, acts, marks, calls, clock, frames, scanner, compared>>

\* Compiler::insert_jump_address on the two bytes after a Jump, to the start
\* of the code (as a loop does) or to its end (as an `if` does)
ChunkPatchJump ==
  /\ \E site \in 1..CodeLen(builder) - 2 :
       /\ ByteAt(builder.chunk.code, site - 1) = OpJump
       /\ \E destination \in {0, CodeLen(builder)} :
            builder' = InsertJumpAddress(builder, site, destination)
  /\ UNCHANGED <<vm, source, ghost, acts, marks, calls, clock, frames, scanner, compared>>

\* compile_fn_statement writes the locals count of a function it started
ChunkWriteLocals ==
  /\ \E i \in 1..Len(builder.chunk.function_locations) :
       \E max_local \in CodeBytes :
         builder' = WriteLocalsCount(builder, builder.chunk.function_locations[i] + 1,
                                     max_local)
  /\ UNCHANGED <<vm, source, ghost, acts, marks, calls, clock, frames, scanner, compared>>

NextChunk == ChunkWrite \/ ChunkStartFunction \/ ChunkPatchJump \/ ChunkWriteLocals

SpecChunk == Init /\ [][NextChunk]_vars

\* Scanner::new on a source text
ScannerNew ==
  /\ scanner.pc = "none"
  /\ \E text \in Texts : scanner' = ScannerOf(text)
  /\ UNCHANGED <<vm, source, ghost, acts, marks, calls, clock, frames, builder, compared>>

\* Scanner::scan_token is called
ScanToken ==
  /\ scanner.pc \in {"new", "token", "eof"}
  /\ scanner' = ScanTokenEnter(scanner)
  /\ UNCHANGED <<vm, source, ghost, acts, marks, calls, clock, frames, builder, compared>>

\* Scanner::scan_token: the call in progress takes its next step
ScanStep ==
  /\ scanner.pc \in {"skip_whitespace", "comment", "scan"}
  /\ scanner' = ScanTokenStep(scanner)
  /\ UNCHANGED <<vm, source, ghost, acts, marks, calls, clock, frames, builder, compared>>

\* HashableValue::cmp is applied to three values, pair by pair, as a sort does
HashableValueCmp ==
  /\ ~compared.done
  /\ \E a \in HashableValues, b \in HashableValues, c \in HashableValues :
       compared' = [done |-> TRUE, a |-> a, b |-> b, c |-> c,
                    ab |-> cmp(a, b), ba |-> cmp(b, a), bc |-> cmp(b, c), ac |-> cmp(a, c)]
  /\ UNCHANGED <<vm, source, ghost, acts, marks, calls, scanner, clock, frames, builder>>

NextCmp == HashableValueCmp

SpecCmp == Init /\ [][NextCmp]_vars

NextScan == ScannerNew \/ ScanToken \/ ScanStep

\* a call of scan_token in progress keeps running: the scanner is
\* single-threaded code that nothing interrupts
SpecScan == Init /\ [][NextScan]_vars /\ WF_vars(ScanStep)

(***************************************************************************)
(* Properties                                                              *)
(***************************************************************************)
\* the function activation whose code is running
Activation == Last(acts)

\* C1: at every Return of a function, the value stack is one deeper than it was
\* right after the function's prologue stored its parameters
ReturnLeavesOneResult ==
  (Running(vm) /\ CurrentInstruction(vm) = OpReturn /\ acts # <<>>)
    => Len(vm.stack) = Activation.depth - ghost.fn_arity[Activation.entry] + 1

RECURSIVE Fibonacci(_)
Fibonacci(n) == IF n < 2 THEN n ELSE Fibonacci(n - 1) + Fibonacci(n - 2)

\* C2: the Fibonacci program run with f(n) ends without an error, having printed
\* the n-th Fibonacci number (55 for n = 10)
FibPrintsFibonacci ==
  (source.name = "fib" /\ ~Running(vm))
    => /\ vm.status = "ok"
       /\ vm.output = <<ToString(Fibonacci(source.args[1]))>>

\* C3: every interpret call on a reused VM starts its run with an empty heap, an
\* empty value stack, an empty call-frame stack and locals_base = locals_top = 0
ReusedVMStartsClean ==
  [][(calls' = calls + 1 /\ Running(vm'))
       => /\ vm'.heap = <<>>
          /\ vm'.stack = <<>>
          /\ vm'.return_stack = <<>>
          /\ vm'.locals_base = 0
          /\ vm'.locals_top = 0]_vars

\* C4: where the exhaustion jump and the break jumps of a for loop land, the value
\* stack is as deep as it was just before the iterable expression was evaluated
ForExitDepth ==
  \A i \in 1..Len(marks) :
    (/\ Running(vm)
     /\ ghost.sites[marks[i].site].k = "for"
     /\ marks[i].frame = Frame(vm)
     /\ vm.ip = ghost.sites[marks[i].site].exit)
      => Len(vm.stack) = marks[i].depth

\* the `&&` and `||` in progress in the running activation
ShortCircuitsInProgress ==
  {i \in 1..Len(marks) : /\ Running(vm)
                         /\ ghost.sites[marks[i].site].k \in {"and", "or"}
                         /\ marks[i].frame = Frame(vm)}

\* C5: when the left operand of `&&` is falsey, or that of `||` truey, no
\* instruction of the right operand is executed and the value left is the left
\* operand's; otherwise the left operand's value is removed before the right
\* operand runs, so that the value left is the right operand's; either way the
\* stack is one deeper than before the expression.  (Every operand of the
\* programs prints its value when it is evaluated, so the value of the operand
\* evaluated last is the last line of the output.)
ShortCircuit ==
  \A i \in ShortCircuitsInProgress :
    LET site == ghost.sites[marks[i].site]
    IN /\ marks[i].skip => ~(site.rhs - 1 <= vm.ip /\ vm.ip < site.end)
       /\ vm.ip = site.rhs => Len(vm.stack) = marks[i].depth - 1
       /\ vm.ip = site.end
            => /\ Len(vm.stack) = marks[i].depth
               /\ marks[i].skip => ValueEq(Top(vm), marks[i].val)
               /\ vm.output # <<>>
               /\ Display(Top(vm)) = Last(vm.output)

\* C5, witness: an `&&` whose left operand was nil has been left with nil on the
\* stack, only the left operand having printed
ShortCircuitTaken ==
  \E i \in ShortCircuitsInProgress :
    /\ ghost.sites[marks[i].site].k = "and"
    /\ marks[i].skip
    /\ vm.ip = ghost.sites[marks[i].site].end
    /\ Top(vm) = Nil
    /\ vm.output = <<"nil">>

\* the programs whose main reads a name bound only in another function
ForeignNamePrograms == {"other_parameter", "other_local"}

\* C6: a program that reads a name bound only in another function, as that
\* function's parameter or by its `let`, is rejected with a CompilerError
ForeignNameRejected ==
  (source.name \in ForeignNamePrograms) => vm.status = "compile_error"

\* C7: a program with a `break` or a `continue` outside every loop is rejected
\* with a CompilerError and no chunk is produced
JumpOutsideLoopRejected ==
  (source.name \in {"break_outside", "continue_outside"})
    => vm.status = "compile_error" /\ vm.chunk = ChunkNew

\* C8: the slot operand of every AssignLocal, LoadLocal and ForLoop executed is
\* below the locals count of the FunctionEntry of the running function, and the
\* VM's range check on locals never fails
SlotOperandsBelowLocalsCount ==
  /\ (/\ Running(vm)
      /\ acts # <<>>
      /\ CurrentInstruction(vm) \in {OpAssignLocal, OpLoadLocal, OpForLoop})
       => ByteAt(vm.chunk.code, vm.ip + 1) < ByteAt(vm.chunk.code, Activation.entry + 1)
  /\ vm.error.msg \notin {"Local store out of range", "Local load out of range"}

\* the instructions that push a value without popping one first
PushInstructions ==
  {OpConstant, OpLoadLocal, OpPushNil, OpPushTrue, OpPushFalse, OpDup, OpNewArray, OpNewMap}

\* C9: a push on a value stack that holds 256 values ends the run with a
\* RuntimeError, the stack left as it was
PushOnFullStackIsRuntimeError ==
  [][(/\ Running(vm)
      /\ Len(vm.stack) = STACK_SIZE
      /\ CurrentInstruction(vm) \in PushInstructions)
       => vm'.status = "runtime_error" /\ vm'.stack = vm.stack]_vars

\* C10: a program with more than 256 constants is rejected with a CompilerError,
\* and every Constant instruction loads the constant added for it: the k-th
\* print of the constants program prints k - 1
ConstantTableOverflowRejected ==
  (source.name = "constants")
    => /\ source.args[1] > U8_RANGE => vm.status = "compile_error"
       /\ \A k \in 1..Len(vm.output) : vm.output[k] = ToString(k - 1)

\* C11: a function with more than 256 variables, which needs a slot above 255,
\* is rejected with a CompilerError; and a function that is run reads its first
\* variable from a slot no later variable was given
LocalSlotOverflowRejected ==
  (source.name = "locals")
    => /\ source.args[1] > U8_RANGE => vm.status = "compile_error"
       /\ vm.output \in {<<>>, <<"true">>}

\* C12: a program that uses 1 / 0 or 0 / 0 as a map key, in a map literal, in an
\* assignment or in a read, ends with the RuntimeError of the key's line, the map
\* left with the one entry it had
NonFiniteKeyIsRuntimeError ==
  (source.name = "map_key" /\ source.args[2] \in NonFiniteKinds /\ ~Running(vm))
    => /\ vm.status = "runtime_error"
       /\ vm.error = [msg |-> "Tried to hash bad float.", line |-> 2]
       /\ vm.heap = <<MapObject(<<<<Hashable(Number(1)), Number(2)>>>>)>>

\* scan_token has returned or panicked, after it found where its lexeme starts
ScanReturned == scanner.pc \in {"token", "eof", "error", "panic"} /\ IsSome(scanner.lexeme)

\* the character begins no token
BeginsNoToken(c) ==
  /\ c \notin DOMAIN SingleCharacterToken
  /\ c \notin DOMAIN WithEqualToken
  /\ c \notin {"#", "\""}
  /\ ~is_digit(c)
  /\ ~is_alpha(c)

\* the lexeme starts with a character that begins no token
UnexpectedCharacter ==
  /\ scanner.start < Len(scanner.source)
  /\ BeginsNoToken(scanner.source[scanner.start + 1])

\* the lexeme is a string literal that has no closing quote before the end
\* of the source
UnterminatedString ==
  /\ scanner.start < Len(scanner.source)
  /\ scanner.source[scanner.start + 1] = "\""
  /\ \A i \in scanner.start + 2..Len(scanner.source) : scanner.source[i] # "\""

\* C13: scan_token returns Err(ScannerError) when the lexeme it starts on
\* begins with a character that begins no token, and when that lexeme is a
\* string literal with no closing quote before the end of the source.
ScanErrorsAreReturned ==
  (ScanReturned /\ (UnexpectedCharacter \/ UnterminatedString)) => scanner.pc = "error"

\* the index of the end of the line that holds index i: of its newline, or
\* of the end of the source
RECURSIVE EndOfLine(_, _)
EndOfLine(text, i) ==
  IF i >= Len(text) \/ text[i + 1] = "\n" THEN i ELSE EndOfLine(text, i + 1)

\* scan_token has returned the first token after the comment it met, or EOF,
\* the newline that ends the comment counted
ReturnedAfterComment ==
  /\ scanner.pc \in {"token", "eof", "error"}
  /\ IsSome(scanner.comment)
  /\ LET comment == Unwrap(scanner.comment)
         end == EndOfLine(scanner.source, comment.at)
     IN /\ scanner.start >= end
        /\ end < Len(scanner.source) => scanner.token.line > comment.line

\* C14: when the remaining source starts with a `//` comment, scan_token
\* terminates: it skips to the end of the line and returns the first token
\* after the comment, or EOF, with the line counter increased by the newline.
CommentIsSkipped == (scanner.pc = "comment") ~> ReturnedAfterComment

\* s is a prefix of t
IsPrefix(s, t) == Len(s) <= Len(t) /\ s = SubSeq(t, 1, Len(s))

\* the number of times the body of `for x in lo..hi` is to run to its end,
\* brk telling the value of x at which the body breaks, if at any
BodyRuns(lo, hi, brk) ==
  LET last == IF IsSome(brk) /\ Unwrap(brk) >= lo /\ Unwrap(brk) < hi THEN Unwrap(brk) ELSE hi
  IN IF last > lo THEN last - lo ELSE 0

\* what a for_range program is to print: x at each turn, then the count
ForRangeOutput(lo, hi, brk) ==
  [i \in 1..BodyRuns(lo, hi, brk) |-> ToString(lo + i - 1)] \o <<ToString(BodyRuns(lo, hi, brk))>>

\* a for_range program prints nothing but what it is to print, and has
\* printed all of it when it ends
ForRangePrints ==
  (source.name = "for_range")
    => /\ vm.status \in {"running", "ok"}
       /\ IsPrefix(vm.output, ForRangeOutput(source.args[1], source.args[2], source.args[3]))
       /\ vm.status = "ok"
            => vm.output = ForRangeOutput(source.args[1], source.args[2], source.args[3])

TurnPrinted(out, i, n, upd) ==
  \E k \in 1..n :
    /\ out[2 * i - 1] = ToString(k)
    /\ 2 * i <= Len(out)
         => out[2 * i] = IF upd /\ k = 2 /\ i > 1 THEN "99" ELSE ToString(10 * k)

\* a for_map program has printed one key of the map and its value per turn,
\* no key twice, and 9 after the loop; when it ends it has printed all keys
ForMapPrints ==
  (source.name = "for_map")
    => LET n == source.args[1]
           out == vm.output
           turns == IF Len(out) > 2 * n THEN n ELSE (Len(out) + 1) \div 2
       IN /\ vm.status \in {"running", "ok"}
          /\ Len(out) <= 2 * n + 1
          /\ \A i \in 1..turns : TurnPrinted(out, i, n, source.args[3])
          /\ \A i, j \in 1..turns : out[2 * i - 1] = out[2 * j - 1] => i = j
          /\ Len(out) = 2 * n + 1 => out[2 * n + 1] = "9"
          /\ vm.status = "ok" => Len(out) = 2 * n + 1

CallReturnRestoresFrame ==
  IsSome(frames.closed)
    => LET call == Unwrap(frames.closed)
       IN /\ Running(vm)
          /\ vm.ip = call.return_address
          /\ vm.locals_base = call.locals_base
          /\ vm.locals_top = call.locals_top
          /\ Frame(vm) = call.depth

\* a recursive call of f, made two calls deep with f's own locals in place,
\* has returned into f
RecursiveCallReturned ==
  /\ source.name = "recursion"
  /\ IsSome(frames.closed)
  /\ Unwrap(frames.closed).depth >= 2
  /\ Unwrap(frames.closed).locals_top > Unwrap(frames.closed).locals_base
  /\ Len(frames.open) >= 2

\* the walk over count instructions of the code from offset i on: the
\* operands of the Call instructions met and the offset the walk ends at
RECURSIVE WalkInstructions(_, _, _)
WalkInstructions(code, i, count) ==
  IF count = 0 \/ i >= Len(code) THEN [calls |-> {}, next |-> i]
  ELSE Bind(WalkInstructions(code, i + InstructionLength(ByteAt(code, i)), count - 1),
            LAMBDA rest :
         [calls |-> (IF ByteAt(code, i) = OpCall /\ i + 1 < Len(code)
                     THEN {ByteAt(code, i + 1)} ELSE {})
                    \cup rest.calls,
          next |-> rest.next])

\* the operands of the Call instructions of the code from offset i on,
\* gathered sixteen instructions at a time
RECURSIVE CallOperandsFrom(_, _)
CallOperandsFrom(code, i) ==
  IF i >= Len(code) THEN {}
  ELSE Bind(WalkInstructions(code, i, 16), LAMBDA walked :
         walked.calls \cup CallOperandsFrom(code, walked.next))

\* function number n indexes function_locations at an offset that holds
\* FunctionEntry followed by a byte
EntryAt(chunk, n) ==
  /\ n < Len(chunk.function_locations)
  /\ chunk.function_locations[n + 1] + 1 < Len(chunk.code)
  /\ ByteAt(chunk.code, chunk.function_locations[n + 1]) = OpFunctionEntry

\* the program of the model was compiled and its chunk handed to the VM
Compiled == vm.status \in {"running", "ok", "runtime_error"}

\* C18: after a successful compile every function number that is the operand
\* of a Call, and main's number, indexes function_locations at an offset that
\* holds FunctionEntry followed by the locals-count byte; for functions at top
\* level, nested in a block, recursive and defined twice.  (The program of
\* 257 prints, which calls nothing, is left out for its length.)
FunctionLocationsHoldEntries ==
  (Compiled /\ source.name # "constants")
    => \A n \in CallOperandsFrom(vm.chunk.code, 0) \cup {vm.chunk.function_names["main"]} :
         EntryAt(vm.chunk, n)

\* the program that defines a twice has run: its call reached the second
\* definition
SecondDefinitionCalled ==
  /\ source = [name |-> "functions", args |-> <<3>>]
  /\ vm.status = "ok"
  /\ vm.output = <<"2">>
  /\ CallOperandsFrom(vm.chunk.code, 0) = {0}

\* C19: for a patch site s and a destination d with d - (s + 2) in the
\* signed 16-bit range, after insert_jump_address(s, d) a Jump, a taken
\* JumpIfFalse or JumpIfTrue, or a ForLoop exit whose operand is at s, s + 1
\* sets ip to exactly d, backward and forward.
JumpLandsOnDestination ==
  (source.name = "jump" /\ clock = 1) => (Running(vm) /\ vm.ip = source.args[3])

\* the longest backward jump was taken by a ForLoop that found its range
\* exhausted
FarBackwardJumpTaken ==
  /\ source = [name |-> "jump", args |-> <<OpForLoop, I16_RANGE \div 2 + 2, 4>>]
  /\ clock = 1
  /\ vm.ip = 4
  /\ vm.stack = <<>>

\* the VM is about to execute a BuiltinCall of a builtin program, whose
\* calls take no arguments
AtBuiltinCall ==
  /\ source.name = "builtin"
  /\ Running(vm)
  /\ CurrentInstruction(vm) = OpBuiltinCall

\* C20: every execution of BuiltinCall either stops with a RuntimeError or
\* pops the name, the receiver and the arguments and pushes exactly one
\* result; a name that is not defined for the receiver's kind (Array, String,
\* Number, External, other) gives the RuntimeError, and never a run that
\* continues with nothing pushed.
BuiltinCallPushesOneResult ==
  [][AtBuiltinCall
       => \/ vm'.status = "runtime_error"
          \/ Running(vm') /\ Len(vm'.stack) = Len(vm.stack) - 1]_vars

\* C21: in every state reached by any sequence of chunk operations during
\* compilation (write_chunk, start_function, jump patching, writing the
\* locals-count byte), code and lines have the same length.
CodeAndLinesSameLength ==
  /\ Len(builder.chunk.code) = Len(builder.chunk.lines)
  /\ Len(vm.chunk.code) = Len(vm.chunk.lines)

\* a Jump was written, a function was started after it, its locals count
\* was written and the Jump was patched to the end of the code
PatchedAfterStart ==
  /\ builder.chunk.function_locations = <<3>>
  /\ builder.chunk.code = <<OpJump, 2, 0, OpFunctionEntry, OpJump>>
  /\ builder.chunk.lines = <<1, 1, 2, 2, 2>>

\* every ReferenceId on the value stack is below the heap length
StackReferencesValid ==
  \A i \in 1..Len(vm.stack) :
    vm.stack[i].t = "ReferenceId" => vm.stack[i].v < Len(vm.heap)

\* a turn of the VM loop leaves the heap no shorter and every object of the
\* kind it was
HeapOnlyGrows ==
  Running(vm)
    => /\ Len(vm'.heap) >= Len(vm.heap)
       /\ \A i \in 1..Len(vm.heap) : vm'.heap[i].t = vm.heap[i].t

CompileFailureLeavesVM ==
  (calls' = calls + 1 /\ ghost' = NoGhost)
    => /\ vm'.status = "compile_error"
       /\ [vm' EXCEPT !.status = vm.status, !.error = vm.error] = vm

\* a turn of the run loop that neither goes on nor returns the result returned
\* a RuntimeError with the line of the instruction it executed
FailedInstructionReturnsItsLine ==
  (Running(vm) /\ vm'.status \notin {"running", "ok", "unmodelled"})
    => /\ vm'.status = "runtime_error"
       /\ vm'.error.line = vm.chunk.lines[vm.ip + 1]

\* C23: if compiling fails, interpret returns the compile error without
\* executing any instruction and leaves the VM's chunk, ip, heap and stacks as
\* before the call; if an instruction fails at run time, run returns a
\* RuntimeError carrying the line of that instruction and no later instruction
\* is executed.
FailuresAreReturned ==
  /\ [][CompileFailureLeavesVM /\ FailedInstructionReturnsItsLine]_vars
  /\ [](vm.status \in {"compile_error", "runtime_error"} => ~ENABLED Run)

\* what the array program prints: both lengths, then every element twice
ArrayOutput(k, n) ==
  LET Elements[i \in 0..k + n] ==
        IF i = 0 THEN <<>>
        ELSE Elements[i - 1] \o <<ToString(Element(i)), ToString(Element(i))>>
  IN <<ToString(k + n), ToString(k + n)>> \o Elements[k + n]

\* C24: an array literal with K elements extended by N push calls has length
\* K+N as len returns it, and has the same length and the same element at
\* every index as an empty array after pushes of the same values.
LiteralAndPushesAgree ==
  (source.name = "array")
    => /\ vm.status \in {"running", "ok"}
       /\ IsPrefix(vm.output, ArrayOutput(source.args[1], source.args[2]))
       /\ vm.status = "ok"
            => /\ vm.output = ArrayOutput(source.args[1], source.args[2])
               /\ vm.heap[1] = vm.heap[2]
               /\ Len(vm.heap[1].items) = source.args[1] + source.args[2]

\* the literal of two elements extended by two pushes has printed its last
\* element, as has the array built by four pushes
LiteralExtendedAndRead ==
  /\ source = [name |-> "array", args |-> <<2, 2>>]
  /\ vm.status = "ok"
  /\ Len(vm.output) = 10
  /\ vm.output[9] = "40"
  /\ vm.output[10] = "40"

\* the value a top-level let of this kind is to register
GlobalValue(kind) ==
  CASE kind \in {"none", "nil"} -> Nil
    [] kind = "number" -> Number(7)
    [] kind = "string" -> String("ab")
    [] kind = "char" -> Number(97)
    [] kind = "true" -> Boolean(TRUE)
    [] kind = "false" -> Boolean(FALSE)

\* C25: a top-level let whose initializer is a literal registers that value
\* under the name in chunk.globals and emits no code; one with no initializer
\* registers Nil; one whose initializer is any other expression makes
\* compilation fail with a CompilerError.
TopLevelLetRegistersLiteral ==
  (source.name = "global_let")
    => LET kind == source.args[1]
           uses == source.args[2]
       IN IF kind \in OtherInitializers
          THEN /\ vm.status = "compile_error"
               /\ vm.error.msg = "Expected literal in global let initializer."
          ELSE /\ vm.status \in {"running", "ok"}
               /\ DOMAIN vm.chunk.globals = {"g", "h"}
               /\ vm.chunk.globals["g"] = GlobalValue(kind)
               /\ ~uses => vm.chunk.code = Compile(<<MainPrinting(FALSE)>>, FALSE).chunk.code
               /\ (uses /\ vm.status = "ok") => vm.output = <<Display(GlobalValue(kind))>>

\* the program whose global is a char literal has printed it
CharGlobalPrinted ==
  /\ source = [name |-> "global_let", args |-> <<"char", TRUE>>]
  /\ vm.status = "ok"
  /\ vm.output = <<"97">>

\* the VM is about to execute a PopMulti
AtPopMulti == Running(vm) /\ CurrentInstruction(vm) = OpPopMulti /\ acts # <<>>

\* the PopMulti of a break or a continue is followed by the Pop or the Jump
\* they emit, the one of a return by the code of the returned value
BeforeLoopJump == ByteAt(vm.chunk.code, vm.ip + 2) \in {OpPop, OpJump}

\* the stack depth the current function started its body with
FunctionBase == Activation.depth - ghost.fn_arity[Activation.entry]

\* the stack depth the body of the loop of a loop_jump program starts with:
\* the loop is a statement of main, and a for loop keeps its iterator
\* context on the stack
LoopBase == FunctionBase + (IF source.args[1] = "for" THEN 1 ELSE 0)

\* C26: the PopMulti operand emitted for a return equals the number of
\* values the current function has on the value stack at that point, and the
\* one emitted for a break or a continue equals the number of values pushed
\* since the innermost loop body began, also when an earlier return, break or
\* continue appears in the same function or loop body.
PopMultiOperandsAreExact ==
  AtPopMulti
    => LET operand == ByteAt(vm.chunk.code, vm.ip + 1)
       IN IF BeforeLoopJump
          THEN source.name = "loop_jump" => operand = Len(vm.stack) - LoopBase
          ELSE operand = Len(vm.stack) - FunctionBase

\* what the parameters program prints: the arguments in order, then 0
ParametersOutput(n) == [i \in 1..n |-> ToString(10 * i)] \o <<"0">>

\* the VM is at the first instruction after the prologue of f
AfterPrologue ==
  /\ Running(vm)
  /\ acts # <<>>
  /\ Frame(vm) = 1
  /\ vm.ip = Activation.entry + 2 + 2 * source.args[1]

\* C27: when a function declared with parameters p1..pN is called as
\* f(a1..aN), after the function's prologue each parameter pi holds the value
\* of argument ai and the N argument values are no longer on the value stack.
ParametersHoldArguments ==
  (source.name = "parameters")
    => /\ vm.status \in {"running", "ok"}
       /\ IsPrefix(vm.output, ParametersOutput(source.args[1]))
       /\ vm.status = "ok" => vm.output = ParametersOutput(source.args[1])
       /\ AfterPrologue => Len(vm.stack) = Activation.depth - source.args[1]

\* the VM is about to execute a Jump with a negative operand: in a loop_jump
\* program, the Jump of a continue or the one that ends the loop body
AtBackwardJump ==
  /\ Running(vm)
  /\ acts # <<>>
  /\ CurrentInstruction(vm) = OpJump
  /\ ReadSigned16(Advance(vm, 1)) < 0

\* C28: a continue jumps to the innermost enclosing loop's continue target
\* with the stack in the shape that target expects: in a while or a loop the
\* depth equals the depth at the loop's start address, and in a for the
\* iterator context pushed by the last ForLoop is on top of the stack with
\* nothing above it.
ContinueArrivesInShape ==
  [][(source.name = "loop_jump" /\ AtBackwardJump)
       => /\ Running(vm')
          /\ Len(vm'.stack) = LoopBase
          /\ source.args[1] = "for"
               => /\ CurrentInstruction(vm') = OpForLoop
                  /\ vm'.stack[Len(vm'.stack)].t = "Range"]_vars

\* what `print a OP b`, `print a..b` and `print recv[a]` are to print
OrderedOutput(form, a, b) ==
  LET Bool(x) == IF x THEN "true" ELSE "false"
  IN CASE form = "Minus" -> ToString(a - b)
       [] form = "Slash" -> ToString(a \div b)
       [] form = "Percent" -> ToString(a % b)
       [] form = "Less" -> Bool(a < b)
       [] form = "LessEqual" -> Bool(a <= b)
       [] form = "Greater" -> Bool(a > b)
       [] form = "GreaterEqual" -> Bool(a >= b)
       [] form = "Range" -> ToString(a) \o ".." \o ToString(b)
       [] form \in {"IndexArray", "IndexMap"} -> ToString(10 * a)
       [] form = "IndexString" -> ToString(96 + a)

\* C29: for a OP b with OP in {-, /, %, <, <=, >, >=} and Number operands the
\* value pushed is a OP b with a the left operand and b the right operand;
\* for lo..hi the Range pushed is Range(lo, hi); for recv[key] the receiver
\* and the key are not swapped.
OperandsKeepTheirOrder ==
  (source.name = "ordered")
    => /\ vm.status \in {"running", "ok"}
       /\ vm.output \in {<<>>, <<OrderedOutput(source.args[1], source.args[2], source.args[3])>>}
       /\ vm.status = "ok" => vm.output # <<>>

\* 2 - 6 has printed -4
DifferencePrinted ==
  /\ source = [name |-> "ordered", args |-> <<"Minus", 2, 6>>]
  /\ vm.status = "ok"
  /\ vm.output = <<"-4">>

\* the functions written at top level and those declared inside a block
TopLevelNames == {"top", "main", "last"}

DeclaredInBlocks(depth) ==
  {NestedNames[i] : i \in 1..depth} \cup {SiblingNames[i] : i \in 1..depth}

\* the bodies written under a name
EmittedAs(name) == {i \in 1..Len(ghost.emitted) : ghost.emitted[i].name = name}

\* C30: every fn declared inside a block, at any nesting depth and also inside
\* another deferred function, has its body emitted exactly once, after the
\* code of all top-level statements; no function's code range lies inside
\* another function's code range, and the deferred queue is empty when
\* compile_program returns.
DeferredFunctionsEmittedOnce ==
  (source.name = "nested")
    => LET emitted == ghost.emitted
           nested == DeclaredInBlocks(source.args[1])
       IN /\ vm.status \in {"running", "ok"}
          /\ ghost.deferred = <<>>
          /\ \A name \in nested \cup TopLevelNames : Cardinality(EmittedAs(name)) = 1
          /\ Len(emitted) = Cardinality(nested) + 3
          /\ \A i, j \in 1..Len(emitted) :
               (emitted[i].name \in nested /\ emitted[j].name \in TopLevelNames)
                 => emitted[j].end <= emitted[i].start
          /\ \A i, j \in 1..Len(emitted) :
               i # j => \/ emitted[i].end <= emitted[j].start
                        \/ emitted[j].end <= emitted[i].start
          /\ \A i \in 1..Len(emitted) :
               /\ ByteAt(vm.chunk.code, emitted[i].start) = OpFunctionEntry
               /\ vm.chunk.function_locations[vm.chunk.function_names[emitted[i].name] + 1]
                    = emitted[i].start
          /\ vm.status = "ok"
               => vm.output = [i \in 1..source.args[1] |-> ToString(100 + i)]
                                \o <<ToString(source.args[1])>>

\* the program with functions three levels deep has run them all
InnermostFunctionReturned ==
  /\ source = [name |-> "nested", args |-> <<3>>]
  /\ vm.status = "ok"
  /\ vm.output = <<"101", "102", "103", "3">>
  /\ Len(ghost.emitted) = 9

\* the locals cells a turn of the run loop writes
CellsWritten ==
  {i \in 0..STACK_SIZE - 1 :
     \/ vm'.locals[i + 1].t # vm.locals[i + 1].t
     \/ vm'.locals[i + 1] # vm.locals[i + 1]}

\* a turn of the run loop writes only cells of the window of the running
\* activation
WritesOwnWindow ==
  Running(vm) => \A i \in CellsWritten : vm.locals_base <= i /\ i < vm.locals_top

\* a turn of the run loop leaves the window of every caller that waits for a
\* Return as it was
CallersWindowsKept ==
  Running(vm)
    => \A i \in CellsWritten :
         \A k \in 1..Len(frames.open) :
           ~(frames.open[k].locals_base <= i /\ i < frames.open[k].locals_top)

\* the windows of the live activations follow one another: each caller's
\* window ends where its callee's begins or before
WindowsDisjoint ==
  (Running(vm) /\ Len(frames.open) = Len(vm.return_stack))
    => /\ vm.locals_base <= vm.locals_top
       /\ \A k \in 1..Len(frames.open) :
            /\ frames.open[k].locals_base <= frames.open[k].locals_top
            /\ frames.open[k].locals_top
                 <= (IF k < Len(frames.open) THEN frames.open[k + 1].locals_base
                     ELSE vm.locals_base)

\* C31: across any Call and its matching Return the contents of the caller's
\* locals window [locals_base, locals_top) are unchanged by the callee, and
\* each activation reads and writes only its own window: two live
\* activations never share a locals cell.
ActivationsKeepToTheirWindows ==
  [](WindowsDisjoint) /\ [][WritesOwnWindow /\ CallersWindowsKept]_vars

\* a call of scan_token is returning
ScanTokenReturns ==
  /\ scanner.pc \in {"skip_whitespace", "comment", "scan"}
  /\ scanner'.pc \in {"token", "eof", "error", "panic"}

\* the call in progress was made after EOF had been returned: scan_token
\* leaves the token of the previous call in place until it returns
CalledAfterEOF == scanner.token.token_type = "EOF"

\* C32: every call of scan_token returns a token or a ScannerError without
\* reading a character index at or past the end of the source (the index
\* panic is such a read), and once EOF has been returned every later call
\* returns EOF again.
ScanTokenStaysInSource ==
  /\ [](scanner.pc # "panic")
  /\ [][(ScanTokenReturns /\ CalledAfterEOF) => scanner'.pc = "eof"]_vars

\* the second sentence of C32 alone: EOF is returned again after EOF
EOFIsReturnedAgain ==
  [][(ScanTokenReturns /\ CalledAfterEOF) => scanner'.pc = "eof"]_vars

\* a source ending inside a number, inside an identifier or after one `/`
\* ends the call in the index panic
SourceEndsInsideToken ==
  /\ scanner.pc = "panic"
  /\ Len(scanner.source) > 0
  /\ scanner.source[Len(scanner.source)] \in {"1", "a", "/"}

\* the array an Index or IndexAssign instruction is about to work on, the
\* index k it was given and the array's items before the instruction
AtArrayIndex(depth) ==
  /\ Running(vm)
  /\ Len(vm.stack) >= depth
  /\ vm.stack[Len(vm.stack) - depth + 1].t = "ReferenceId"
  /\ vm.stack[Len(vm.stack) - depth + 1].v < Len(vm.heap)
  /\ vm.heap[vm.stack[Len(vm.stack) - depth + 1].v + 1].t = "Array"
  /\ vm.stack[Len(vm.stack) - depth + 2].t = "Number"
  /\ vm.stack[Len(vm.stack) - depth + 2].v >= 0

IndexedId(depth) == vm.stack[Len(vm.stack) - depth + 1].v

IndexGiven(depth) == vm.stack[Len(vm.stack) - depth + 2].v

ItemsBefore(depth) == vm.heap[IndexedId(depth) + 1].items

ItemsAfter(depth) == vm'.heap[IndexedId(depth) + 1].items

\* items extended with Nil to length k + 1 when k >= len, items otherwise
ExtendedTo(items, k) ==
  [i \in 1..(IF k >= Len(items) THEN k + 1 ELSE Len(items)) |->
     IF i <= Len(items) THEN items[i] ELSE Nil]

\* reading a[k]
IndexReadsAndExtends ==
  (CurrentInstruction(vm) = OpIndex /\ AtArrayIndex(2))
    => /\ Running(vm')
       /\ Len(vm'.stack) = Len(vm.stack) - 1
       /\ ItemsAfter(2) = ExtendedTo(ItemsBefore(2), IndexGiven(2))
       /\ Top(vm') = ExtendedTo(ItemsBefore(2), IndexGiven(2))[IndexGiven(2) + 1]
       /\ IndexGiven(2) >= Len(ItemsBefore(2)) => Top(vm') = Nil
       /\ \A id \in 0..Len(vm.heap) - 1 :
            id # IndexedId(2) => vm'.heap[id + 1] = vm.heap[id + 1]

\* a[k] = v
IndexAssignExtendsAndStores ==
  (CurrentInstruction(vm) = OpIndexAssign /\ AtArrayIndex(3))
    => /\ Running(vm')
       /\ Len(ItemsAfter(3)) = Len(ExtendedTo(ItemsBefore(3), IndexGiven(3)))
       /\ \A i \in 1..Len(ItemsAfter(3)) :
            ItemsAfter(3)[i] = IF i = IndexGiven(3) + 1 THEN vm.stack[Len(vm.stack)]
                               ELSE ExtendedTo(ItemsBefore(3), IndexGiven(3))[i]

\* C33: reading a[k] on an array with k >= len pushes Nil and leaves the
\* array with length k + 1, the new cells Nil and the old cells unchanged;
\* with k < len it pushes the element and leaves the array unchanged.
\* a[k] = v extends the array the same way, and a[k] is v afterwards.
IndexExtendsArrayWithNil ==
  [][IndexReadsAndExtends /\ IndexAssignExtendsAndStores]_vars

\* an array of two was read at index 4 and another assigned at index 4:
\* the read printed nil, both arrays have five items
ArrayExtendedByIndex ==
  /\ source = [name |-> "index", args |-> <<2, 4>>]
  /\ vm.status = "ok"
  /\ vm.output = <<"nil", "5", "5", "5">>
  /\ vm.heap[1].items = <<Number(10), Number(20), Nil, Nil, Nil>>
  /\ vm.heap[2].items = <<Number(10), Number(20), Nil, Nil, Number(5)>>

\* Add is about to run on a String (left operand, on top) and a
\* non-negative integer Number
AtStringPlusNumber ==
  /\ Running(vm)
  /\ CurrentInstruction(vm) = OpAdd
  /\ Len(vm.stack) >= 2
  /\ Top(vm).t = "String"
  /\ Top(Drop(vm)).t = "Number"
  /\ is_finite(Top(Drop(vm)))
  /\ Top(Drop(vm)).v >= 0

AppendsLowByte ==
  AtStringPlusNumber
    => /\ Running(vm')
       /\ Len(vm'.stack) = Len(vm.stack) - 1
       /\ Top(vm').t = "String"
       /\ Top(vm').v = Top(vm).v \o Char(Top(Drop(vm)).v % 256)

\* C34: for s + n with s a String and n a non-negative integer Number the
\* result is s followed by the one character whose code is n mod 256, for
\* every n, those of 256 and more included.
StringPlusNumberAppendsLowByte == [][AppendsLowByte]_vars

\* the same for character codes below 256 only
AppendsCodeBelow256 ==
  [][(AtStringPlusNumber /\ Top(Drop(vm)).v < 256) => AppendsLowByte]_vars

\* "ab" + 353 was printed as ab followed by the character of code 255
SaturatedCharAppended ==
  /\ source = [name |-> "append", args |-> <<353>>]
  /\ vm.status = "ok"
  /\ vm.output = <<"ab" \o Char(255)>>

\* return_stack_top and the locals window stay inside the two arrays of
\* STACK_SIZE cells
FramesInsideArrays ==
  /\ Len(vm.return_stack) <= STACK_SIZE
  /\ vm.locals_base <= vm.locals_top
  /\ vm.locals_top <= STACK_SIZE

\* a Call with the return stack full
AtCallTooDeep ==
  /\ Running(vm)
  /\ CurrentInstruction(vm) = OpCall
  /\ Len(vm.return_stack) = STACK_SIZE

\* a FunctionEntry whose locals count would move locals_top past the array
AtFunctionEntryTooHigh ==
  /\ Running(vm)
  /\ CurrentInstruction(vm) = OpFunctionEntry
  /\ CanRead(Advance(vm, 1), 1)
  /\ vm.locals_base + ReadByte(Advance(vm, 1)) > STACK_SIZE

\* C35: a call nesting deeper than 256 frames, or a FunctionEntry that would
\* move locals_top past the 256 locals, stops execution with a RuntimeError;
\* in every reachable state return_stack_top <= 256 and
\* locals_base <= locals_top <= 256.
DeepCallsAreRuntimeErrors ==
  /\ [](FramesInsideArrays)
  /\ [][(AtCallTooDeep \/ AtFunctionEntryTooHigh) => vm'.status = "runtime_error"]_vars

\* the bounds of C35 alone
FramesStayInsideArrays == [](FramesInsideArrays)

\* the 257th nested call ended the run in the index panic of return_stack
ReturnStackOverrun ==
  /\ source = [name |-> "recurse", args |-> <<0>>]
  /\ vm.status = "panic"
  /\ Len(vm.return_stack) = STACK_SIZE

ForArrayOutput(n, two, change) ==
  LET Turn(i) == <<ToString(i)>>
                 \o (IF two
                     THEN <<IF change = "assign" /\ i > 0 THEN "99"
                            ELSE ToString(Element(i + 1))>>
                     ELSE <<>>)
      Turns[i \in 0..n] == IF i = 0 THEN <<>> ELSE Turns[i - 1] \o Turn(i - 1)
  IN Turns[n] \o <<"9">>

ForArrayPrints ==
  (source.name = "for_array")
    => /\ vm.status \in {"new", "running", "ok"}
       /\ IsPrefix(vm.output,
                   ForArrayOutput(source.args[1], source.args[2], source.args[3]))
       /\ vm.status = "ok"
            => vm.output = ForArrayOutput(source.args[1], source.args[2], source.args[3])

Trichotomy ==
  /\ compared.ab = "Less" \/ HashableEq(compared.a, compared.b) \/ compared.ba = "Less"
  /\ ~(compared.ab = "Less" /\ HashableEq(compared.a, compared.b))
  /\ ~(compared.ba = "Less" /\ HashableEq(compared.a, compared.b))
  /\ ~(compared.ab = "Less" /\ compared.ba = "Less")

EqualOnlyWhenSame == compared.ab = "Equal" => HashableEq(compared.a, compared.b)

Antisymmetric == compared.ab = Reverse(compared.ba)

Transitive ==
  /\ (compared.ab = "Less" /\ compared.bc = "Less") => compared.ac = "Less"
  /\ (compared.ab = "Equal" /\ compared.bc = "Equal") => compared.ac = "Equal"
  /\ (compared.ab = "Less" /\ compared.bc = "Equal") => compared.ac = "Less"
  /\ (compared.ab = "Equal" /\ compared.bc = "Less") => compared.ac = "Less"

TagsOrderedByRank ==
  compared.a.h # compared.b.h
    => compared.ab = NumberCmp(TagRank(compared.a.h), TagRank(compared.b.h))

\* C38: HashableValue comparison is a total order: for all a, b exactly one
\* of a < b, a == b, b < a holds, cmp(a, b) is Equal only when a == b,
\* cmp(a, b) is the reverse of cmp(b, a), it is transitive, and values with
\* different tags are ordered by tag rank whatever their contents.
HashableOrderIsTotal ==
  compared.done
    => Trichotomy /\ EqualOnlyWhenSame /\ Antisymmetric /\ Transitive /\ TagsOrderedByRank

\* C38 without the two parts that tie Equal to ==: the comparison is
\* antisymmetric, transitive and ordered by tag rank
HashableOrderIsPreorder ==
  compared.done => Antisymmetric /\ Transitive /\ TagsOrderedByRank

\* two Ranges with the same left bound and different right bounds compare Equal
RangesComparedEqual ==
  /\ compared.done
  /\ compared.a.h = "Range"
  /\ compared.b.h = "Range"
  /\ compared.a # compared.b
  /\ compared.ab = "Equal"

====
